---- MODULE Spec2Model ----
(***************************************************************************)
(* Shipment tracking assistant: the classification pipeline of             *)
(* services/mondayService.ts and services/carrierService.ts, and the       *)
(* App component (App.tsx) that re-derives a TrackingInfo from the         *)
(* assistant's answer.                                                     *)
(*                                                                         *)
(* A text is a sequence of characters.  A character is a one-element       *)
(* string for ASCII, and a short name for the others:                      *)
(*   "a'" "e'" "i'" "o'" "u'" "n~"  precomposed accented letters (and      *)
(*   "A'" ... "N~" their capitals), "U+0301" "U+0303" the combining acute  *)
(*   accent and tilde, "U+2705" "U+1F69A" "U+26A0" "U+FE0F" "U+23F3" the   *)
(*   emoji the status patterns name.                                       *)
(***************************************************************************)
EXTENDS Integers, Sequences, FiniteSets, TLC

VARIABLES
    \* --- a call of one of the pure classification functions
    fnText, fnHasTrackingNumber, fnCarrier, fnStatus, fnResult, fnPc,
    \* --- fetchMondayOrders: the mapping of one board item
    item, colIdx, simplifiedValues, trackingNumber, shippingCarrier, statusText,
    record, buildPc,
    \* --- the App component and the chat session of geminiService
    apiKey, chatSession, isConfigured, statusMessage, searchQuery, messages,
    isLoading, trackingInfo, hasSearched, ordersData, isInitializing,
    connPc, searchPc, shownBefore

fnVars == <<fnText, fnHasTrackingNumber, fnCarrier, fnStatus, fnResult, fnPc>>
buildVars == <<item, colIdx, simplifiedValues, trackingNumber, shippingCarrier,
               statusText, record, buildPc>>
appVars == <<apiKey, chatSession, isConfigured, statusMessage, searchQuery, messages,
             isLoading, trackingInfo, hasSearched, ordersData, isInitializing,
             connPc, searchPc, shownBefore>>
vars == <<fnVars, buildVars, appVars>>

(***************************************************************************)
(* Bounds of the model.                                                    *)
(***************************************************************************)
\* words per generated text
MaxWords == 2
\* columns per board item
MaxCols == 2
\* items per board
MaxOrders == 2
\* searches per session
MaxSearches == 2

(***************************************************************************)
(* Characters and the JavaScript string operations the code uses.          *)
(***************************************************************************)
LowerAscii == <<"a","b","c","d","e","f","g","h","i","j","k","l","m",
                "n","o","p","q","r","s","t","u","v","w","x","y","z">>
UpperAscii == <<"A","B","C","D","E","F","G","H","I","J","K","L","M",
                "N","O","P","Q","R","S","T","U","V","W","X","Y","Z">>
AccLower == <<"a'","e'","i'","o'","u'","n~">>
AccUpper == <<"A'","E'","I'","O'","U'","N~">>
AccBase  == <<"a","e","i","o","u","n">>
AccMark  == <<"U+0301","U+0301","U+0301","U+0301","U+0301","U+0303">>

Range(s) == {s[i] : i \in DOMAIN s}

Digits == {"0","1","2","3","4","5","6","7","8","9"}
\* \w of a regular expression without the u flag: [A-Za-z0-9_]
WordChars == Range(LowerAscii) \cup Range(UpperAscii) \cup Digits \cup {"_"}
\* \s, and what String.prototype.trim removes
WhiteSpace == {" ", "\n", "\t"}
\* what . does not match
LineTerminators == {"\n"}
\* the range U+0300..U+036F of the replace pattern
CombiningMarks == {"U+0301", "U+0303"}

\* the characters that have another case, and their other case
LowerOf ==
    [c \in Range(UpperAscii) \cup Range(AccUpper) |->
        IF c \in Range(UpperAscii)
        THEN LowerAscii[CHOOSE i \in DOMAIN UpperAscii : UpperAscii[i] = c]
        ELSE AccLower[CHOOSE i \in DOMAIN AccUpper : AccUpper[i] = c]]
UpperOf ==
    [c \in Range(LowerAscii) \cup Range(AccLower) |->
        IF c \in Range(LowerAscii)
        THEN UpperAscii[CHOOSE i \in DOMAIN LowerAscii : LowerAscii[i] = c]
        ELSE AccUpper[CHOOSE i \in DOMAIN AccLower : AccLower[i] = c]]

lowerChar(c) == IF c \in DOMAIN LowerOf THEN LowerOf[c] ELSE c
upperChar(c) == IF c \in DOMAIN UpperOf THEN UpperOf[c] ELSE c

toLowerCase(s) == [i \in DOMAIN s |-> lowerChar(s[i])]
toUpperCase(s) == [i \in DOMAIN s |-> upperChar(s[i])]

\* canonical decomposition: the accented letters become base letter and mark
Decomposition ==
    [c \in Range(AccLower) \cup Range(AccUpper) |->
        IF c \in Range(AccLower)
        THEN LET i == CHOOSE k \in DOMAIN AccLower : AccLower[k] = c
             IN <<AccBase[i], AccMark[i]>>
        ELSE LET i == CHOOSE k \in DOMAIN AccUpper : AccUpper[k] = c
             IN <<UpperOf[AccBase[i]], AccMark[i]>>]

nfdChar(c) == IF c \in DOMAIN Decomposition THEN Decomposition[c] ELSE <<c>>

RECURSIVE normalizeNFD(_)
normalizeNFD(s) ==
    IF s = <<>> THEN <<>> ELSE nfdChar(Head(s)) \o normalizeNFD(Tail(s))

\* s.replace(/[U+0300-U+036F]/g, ''): every combining mark is removed
replaceMarks(s) == SelectSeq(s, LAMBDA c : c \notin CombiningMarks)

\* a plausible slip: the marks removed before the decomposition
normalized_StripBeforeDecompose(s) == normalizeNFD(replaceMarks(toLowerCase(s)))

\* x.toLowerCase().normalize('NFD').replace(/[U+0300-U+036F]/g, '')
normalized(s) == replaceMarks(normalizeNFD(toLowerCase(s)))

RECURSIVE trimStart(_)
trimStart(s) ==
    IF s # <<>> /\ Head(s) \in WhiteSpace THEN trimStart(Tail(s)) ELSE s

RECURSIVE trimEnd(_)
trimEnd(s) ==
    IF s # <<>> /\ s[Len(s)] \in WhiteSpace
    THEN trimEnd(SubSeq(s, 1, Len(s) - 1)) ELSE s

trim(s) == trimEnd(trimStart(s))

matchAt(s, lit, i) ==
    /\ i + Len(lit) - 1 <= Len(s)
    /\ \A j \in 1..Len(lit) : s[i + j - 1] = lit[j]

\* String.prototype.includes
includes(s, lit) == \E i \in 1..(Len(s) + 1) : matchAt(s, lit, i)

\* array.some(x => s.includes(x))
someIncluded(s, list) == \E k \in DOMAIN list : includes(s, list[k])

RECURSIVE Flatten(_)
Flatten(ws) == IF ws = <<>> THEN <<>> ELSE Head(ws) \o Flatten(Tail(ws))

\* the texts of at most n words of a vocabulary
TextsOver(Words, n) ==
    {Flatten(ws) : ws \in UNION {[1..k -> Words] : k \in 0..n}}

(***************************************************************************)
(* types.ts                                                                *)
(***************************************************************************)
ShippingCarrier ==
    {"ESTAFETA", "FEDEX", "DHL", "UPS", "REDPACK", "PAQUETEXPRESS", "UNKNOWN"}
ShipmentStatus == {"PENDING", "IN_TRANSIT", "DELIVERED", "NO_DATA"}

(***************************************************************************)
(* services/carrierService.ts                                              *)
(***************************************************************************)
\* a plausible slip: DHL tested after UPS
detectCarrier_UpsFirst(carrierText) ==
    IF carrierText = <<>> THEN "UNKNOWN"
    ELSE LET n == trim(toUpperCase(carrierText)) IN
         IF includes(n, <<"E","S","T","A","F","E","T","A">>) THEN "ESTAFETA"
         ELSE IF includes(n, <<"F","E","D","E","X">>)
                 \/ includes(n, <<"F","E","D"," ","E","X">>) THEN "FEDEX"
         ELSE IF includes(n, <<"U","P","S">>) THEN "UPS"
         ELSE IF includes(n, <<"D","H","L">>) THEN "DHL"
         ELSE IF includes(n, <<"R","E","D","P","A","C","K">>) THEN "REDPACK"
         ELSE IF includes(n, <<"P","A","Q","U","E","T","E","X","P","R","E","S","S">>)
                 \/ includes(n, <<"P","A","Q","U","E","T","E"," ","E","X","P","R","E","S","S">>)
              THEN "PAQUETEXPRESS"
         ELSE "UNKNOWN"

detectCarrier(carrierText) ==
    IF carrierText = <<>> THEN "UNKNOWN"
    ELSE LET n == trim(toUpperCase(carrierText)) IN
         IF includes(n, <<"E","S","T","A","F","E","T","A">>) THEN "ESTAFETA"
         ELSE IF includes(n, <<"F","E","D","E","X">>)
                 \/ includes(n, <<"F","E","D"," ","E","X">>) THEN "FEDEX"
         ELSE IF includes(n, <<"D","H","L">>) THEN "DHL"
         ELSE IF includes(n, <<"U","P","S">>) THEN "UPS"
         ELSE IF includes(n, <<"R","E","D","P","A","C","K">>) THEN "REDPACK"
         ELSE IF includes(n, <<"P","A","Q","U","E","T","E","X","P","R","E","S","S">>)
                 \/ includes(n, <<"P","A","Q","U","E","T","E"," ","E","X","P","R","E","S","S">>)
              THEN "PAQUETEXPRESS"
         ELSE "UNKNOWN"

\* CARRIER_CONFIGS[carrier].trackingUrl, the URL template of each carrier.
CARRIER_CONFIGS ==
    [carrier \in ShippingCarrier |->
        CASE carrier = "ESTAFETA" ->
               [trackingUrl |-> <<"h","t","t","p","s",":","/","/","w","w","w",".","e","s","t","a","f","e","t","a",".","c","o","m","/","H","e","r","r","a","m","i","e","n","t","a","s","/","R","a","s","t","r","e","o","?","g","u","i","a","=">>]
          [] carrier = "FEDEX" ->
               [trackingUrl |-> <<"h","t","t","p","s",":","/","/","w","w","w",".","f","e","d","e","x",".","c","o","m","/","f","e","d","e","x","t","r","a","c","k","/","?","t","r","k","n","b","r","=">>]
          [] carrier = "DHL" ->
               [trackingUrl |-> <<"h","t","t","p","s",":","/","/","w","w","w",".","d","h","l",".","c","o","m","/","m","x","-","e","s","/","h","o","m","e","/","r","a","s","t","r","e","o",".","h","t","m","l","?","t","r","a","c","k","i","n","g","-","i","d","=">>]
          [] carrier = "UPS" ->
               [trackingUrl |-> <<"h","t","t","p","s",":","/","/","w","w","w",".","u","p","s",".","c","o","m","/","t","r","a","c","k","?","t","r","a","c","k","n","u","m","=">>]
          [] carrier = "REDPACK" ->
               [trackingUrl |-> <<"h","t","t","p","s",":","/","/","w","w","w",".","r","e","d","p","a","c","k",".","c","o","m",".","m","x","/","e","s","/","r","a","s","t","r","e","o","/","?","g","u","i","a","s","=">>]
          [] carrier = "PAQUETEXPRESS" ->
               [trackingUrl |-> <<"h","t","t","p","s",":","/","/","w","w","w",".","p","a","q","u","e","t","e","x","p","r","e","s","s",".","c","o","m",".","m","x","/","r","a","s","t","r","e","o","/">>]
          [] carrier = "UNKNOWN" ->
               [trackingUrl |-> <<>>]]

\* getTrackingUrl without its guard: the template and the number are always
\* concatenated.
getTrackingUrl_NoGuard(carrier, number) ==
    CARRIER_CONFIGS[carrier].trackingUrl \o number

\* getTrackingUrl(carrier, trackingNumber): '' when the template is empty or
\* the carrier is UNKNOWN, else template + trackingNumber.
getTrackingUrl(carrier, number) ==
    LET config == CARRIER_CONFIGS[carrier]
    IN  IF config.trackingUrl = <<>> \/ carrier = "UNKNOWN"
        THEN <<>>
        ELSE config.trackingUrl \o number

(***************************************************************************)
(* services/mondayService.ts: keyword lists and classifiers                *)
(***************************************************************************)
DELIVERED_KEYWORDS == <<
    <<"e","n","t","r","e","g","a","d","o">>,
    <<"d","e","l","i","v","e","r","e","d">>,
    <<"c","o","m","p","l","e","t","a","d","o">>,
    <<"c","o","m","p","l","e","t","e","d">>,
    <<"f","i","n","a","l","i","z","a","d","o">>,
    <<"r","e","c","i","b","i","d","o">> >>

IN_TRANSIT_KEYWORDS == <<
    <<"e","n"," ","c","a","m","i","n","o">>,
    <<"e","n"," ","t","r","a","n","s","i","t","o">>,
    <<"e","n"," ","t","r","a'","n","s","i","t","o">>,
    <<"e","n","v","i","a","d","o">>,
    <<"s","h","i","p","p","e","d">>,
    <<"t","r","a","n","s","i","t">>,
    <<"e","n"," ","r","u","t","a">> >>

\* a plausible slip: || for && in the NO_DATA test
detectShipmentStatus_Or(text, hasTrackingNumber) ==
    IF text = <<>> \/ ~hasTrackingNumber THEN "NO_DATA"
    ELSE IF someIncluded(normalized(text), DELIVERED_KEYWORDS) THEN "DELIVERED"
    ELSE IF someIncluded(normalized(text), IN_TRANSIT_KEYWORDS) THEN "IN_TRANSIT"
    ELSE IF hasTrackingNumber THEN "IN_TRANSIT"
    ELSE "PENDING"

\* a plausible slip: the tracking-number default tested before the keywords
detectShipmentStatus_TrackingFirst(text, hasTrackingNumber) ==
    IF text = <<>> /\ ~hasTrackingNumber THEN "NO_DATA"
    ELSE IF hasTrackingNumber THEN "IN_TRANSIT"
    ELSE IF someIncluded(normalized(text), DELIVERED_KEYWORDS) THEN "DELIVERED"
    ELSE IF someIncluded(normalized(text), IN_TRANSIT_KEYWORDS) THEN "IN_TRANSIT"
    ELSE "PENDING"

detectShipmentStatus(text, hasTrackingNumber) ==
    IF text = <<>> /\ ~hasTrackingNumber THEN "NO_DATA"
    ELSE IF someIncluded(normalized(text), DELIVERED_KEYWORDS) THEN "DELIVERED"
    ELSE IF someIncluded(normalized(text), IN_TRANSIT_KEYWORDS) THEN "IN_TRANSIT"
    ELSE IF hasTrackingNumber THEN "IN_TRANSIT"
    ELSE "PENDING"

\* Column ID patterns to detect tracking, carrier and status columns
TRACKING_COLUMN_PATTERNS == <<
    <<"g","u","i","a">>,
    <<"t","r","a","c","k","i","n","g">>,
    <<"r","a","s","t","r","e","o">>,
    <<"n","u","m","e","r","o","_","g","u","i","a">>,
    <<"g","u","i'","a">> >>

CARRIER_COLUMN_PATTERNS == <<
    <<"c","o","m","p","a","n","i","a">>,
    <<"c","o","m","p","a","n~","i","a">>,
    <<"c","a","r","r","i","e","r">>,
    <<"p","a","q","u","e","t","e","r","i","a">>,
    <<"p","a","q","u","e","t","e","r","i'","a">>,
    <<"e","m","p","r","e","s","a","_","e","n","v","i","o">> >>

STATUS_COLUMN_PATTERNS == <<
    <<"e","s","t","a","d","o">>,
    <<"s","t","a","t","u","s">>,
    <<"e","s","t","a","t","u","s">>,
    <<"s","i","t","u","a","c","i","o","n">>,
    <<"s","i","t","u","a","c","i","o'","n">> >>

isTrackingColumn(title) == someIncluded(normalized(title), TRACKING_COLUMN_PATTERNS)
isCarrierColumn(title) == someIncluded(normalized(title), CARRIER_COLUMN_PATTERNS)
isStatusColumn(title) == someIncluded(normalized(title), STATUS_COLUMN_PATTERNS)

\* the quantifier {10,22} of the tracking-number pattern
MinTrackingDigits == 10
MaxTrackingDigits == 22

isWordAt(s, i) == i >= 1 /\ i <= Len(s) /\ s[i] \in WordChars

\* \b holds between s[i-1] and s[i]
wordBoundary(s, i) == isWordAt(s, i - 1) # isWordAt(s, i)

\* the pattern without its word boundaries: \d{n} matches s at position i
trackingPatternAt_NoBoundary(s, i, n) ==
    /\ i + n - 1 <= Len(s)
    /\ \A j \in i..(i + n - 1) : s[j] \in Digits

\* \b\d{n}\b matches s at position i
trackingPatternAt(s, i, n) ==
    /\ wordBoundary(s, i)
    /\ i + n - 1 <= Len(s)
    /\ \A j \in i..(i + n - 1) : s[j] \in Digits
    /\ wordBoundary(s, i + n)

\* a plausible slip: the last match of the pattern instead of the first
matchTrackingPattern_Last(s) ==
    LET starts == {i \in 1..Len(s) :
                     /\ s[i] \in Digits
                     /\ \E n \in MinTrackingDigits..MaxTrackingDigits :
                           trackingPatternAt(s, i, n)}
    IN IF starts = {} THEN <<>>
       ELSE LET i == CHOOSE x \in starts : \A y \in starts : y <= x
                n == CHOOSE x \in MinTrackingDigits..MaxTrackingDigits :
                        /\ trackingPatternAt(s, i, x)
                        /\ \A y \in MinTrackingDigits..MaxTrackingDigits :
                              trackingPatternAt(s, i, y) => y <= x
            IN <<SubSeq(s, i, i + n - 1)>>

\* text.match(/\b\d{10,22}\b/): <<>> for null, else <<match[0]>>; the leftmost
\* position that matches, with the longest repetition that matches there
matchTrackingPattern(s) ==
    LET starts == {i \in 1..Len(s) :
                     /\ s[i] \in Digits
                     /\ \E n \in MinTrackingDigits..MaxTrackingDigits :
                           trackingPatternAt(s, i, n)}
    IN IF starts = {} THEN <<>>
       ELSE LET i == CHOOSE x \in starts : \A y \in starts : x <= y
                n == CHOOSE x \in MinTrackingDigits..MaxTrackingDigits :
                        /\ trackingPatternAt(s, i, x)
                        /\ \A y \in MinTrackingDigits..MaxTrackingDigits :
                              trackingPatternAt(s, i, y) => y <= x
            IN <<SubSeq(s, i, i + n - 1)>>

extractTrackingNumber(text) ==
    IF text = <<>> THEN <<>>
    ELSE LET match == matchTrackingPattern(text)
         IN IF match # <<>> THEN match[1] ELSE trim(text)

(***************************************************************************)
(* services/mondayService.ts: fetchMondayOrders, the mapping of one item   *)
(***************************************************************************)
\* Record<string, string>: a function from the keys present to their values
EmptyValues == [k \in {} |-> <<>>]
setValue(values, key, value) ==
    [k \in DOMAIN values \cup {key} |-> IF k = key THEN value ELSE values[k]]

\* the locals of the map callback before the forEach
initialLocals ==
    [simplifiedValues |-> EmptyValues, trackingNumber |-> <<>>,
     shippingCarrier |-> "UNKNOWN", statusText |-> <<>>]

\* col.column?.title || col.id
columnTitleOf(col) == IF col.title # <<>> THEN col.title ELSE col.id

\* a plausible slip: the tracking column is read even when a number is set
forEachBody_NoTrackingGuard(acc, col) ==
    LET columnTitle == columnTitleOf(col) IN
    IF col.text = <<>> THEN acc
    ELSE [simplifiedValues |-> setValue(acc.simplifiedValues, columnTitle, col.text),
          trackingNumber |->
              IF isTrackingColumn(columnTitle)
              THEN extractTrackingNumber(col.text) ELSE acc.trackingNumber,
          shippingCarrier |->
              IF isCarrierColumn(columnTitle) /\ acc.shippingCarrier = "UNKNOWN"
              THEN detectCarrier(col.text) ELSE acc.shippingCarrier,
          statusText |->
              IF isStatusColumn(columnTitle) /\ acc.statusText = <<>>
              THEN col.text ELSE acc.statusText]

\* a plausible slip: the carrier column is read even when a carrier is set
forEachBody_NoCarrierGuard(acc, col) ==
    LET columnTitle == columnTitleOf(col) IN
    IF col.text = <<>> THEN acc
    ELSE [simplifiedValues |-> setValue(acc.simplifiedValues, columnTitle, col.text),
          trackingNumber |->
              IF isTrackingColumn(columnTitle) /\ acc.trackingNumber = <<>>
              THEN extractTrackingNumber(col.text) ELSE acc.trackingNumber,
          shippingCarrier |->
              IF isCarrierColumn(columnTitle)
              THEN detectCarrier(col.text) ELSE acc.shippingCarrier,
          statusText |->
              IF isStatusColumn(columnTitle) /\ acc.statusText = <<>>
              THEN col.text ELSE acc.statusText]

\* a plausible slip: the three tests chained with else, so that a column
\* serves one category only
forEachBody_ExclusiveCategories(acc, col) ==
    LET columnTitle == columnTitleOf(col)
        asTracking == isTrackingColumn(columnTitle) /\ acc.trackingNumber = <<>>
        asCarrier == ~asTracking /\ isCarrierColumn(columnTitle)
                        /\ acc.shippingCarrier = "UNKNOWN"
        asStatus == ~asTracking /\ ~asCarrier /\ isStatusColumn(columnTitle)
                        /\ acc.statusText = <<>>
    IN
    IF col.text = <<>> THEN acc
    ELSE [simplifiedValues |-> setValue(acc.simplifiedValues, columnTitle, col.text),
          trackingNumber |->
              IF asTracking THEN extractTrackingNumber(col.text) ELSE acc.trackingNumber,
          shippingCarrier |->
              IF asCarrier THEN detectCarrier(col.text) ELSE acc.shippingCarrier,
          statusText |->
              IF asStatus THEN col.text ELSE acc.statusText]

\* a plausible slip: a title already in the fields keeps its first value
forEachBody_FirstFieldKept(acc, col) ==
    LET columnTitle == columnTitleOf(col) IN
    IF col.text = <<>> THEN acc
    ELSE [simplifiedValues |->
              IF columnTitle \in DOMAIN acc.simplifiedValues
              THEN acc.simplifiedValues
              ELSE setValue(acc.simplifiedValues, columnTitle, col.text),
          trackingNumber |->
              IF isTrackingColumn(columnTitle) /\ acc.trackingNumber = <<>>
              THEN extractTrackingNumber(col.text) ELSE acc.trackingNumber,
          shippingCarrier |->
              IF isCarrierColumn(columnTitle) /\ acc.shippingCarrier = "UNKNOWN"
              THEN detectCarrier(col.text) ELSE acc.shippingCarrier,
          statusText |->
              IF isStatusColumn(columnTitle) /\ acc.statusText = <<>>
              THEN col.text ELSE acc.statusText]

\* the carrier taken from tracking-like columns too
forEachBody_CarrierFromTracking(acc, col) ==
    LET columnTitle == columnTitleOf(col) IN
    IF col.text = <<>> THEN acc
    ELSE [simplifiedValues |-> setValue(acc.simplifiedValues, columnTitle, col.text),
          trackingNumber |->
              IF isTrackingColumn(columnTitle) /\ acc.trackingNumber = <<>>
              THEN extractTrackingNumber(col.text) ELSE acc.trackingNumber,
          shippingCarrier |->
              IF (isCarrierColumn(columnTitle) \/ isTrackingColumn(columnTitle))
                 /\ acc.shippingCarrier = "UNKNOWN"
              THEN detectCarrier(col.text) ELSE acc.shippingCarrier,
          statusText |->
              IF isStatusColumn(columnTitle) /\ acc.statusText = <<>>
              THEN col.text ELSE acc.statusText]

\* one iteration of item.column_values.forEach
forEachBody(acc, col) ==
    LET columnTitle == columnTitleOf(col) IN
    IF col.text = <<>> THEN acc
    ELSE [simplifiedValues |-> setValue(acc.simplifiedValues, columnTitle, col.text),
          trackingNumber |->
              IF isTrackingColumn(columnTitle) /\ acc.trackingNumber = <<>>
              THEN extractTrackingNumber(col.text) ELSE acc.trackingNumber,
          shippingCarrier |->
              IF isCarrierColumn(columnTitle) /\ acc.shippingCarrier = "UNKNOWN"
              THEN detectCarrier(col.text) ELSE acc.shippingCarrier,
          statusText |->
              IF isStatusColumn(columnTitle) /\ acc.statusText = <<>>
              THEN col.text ELSE acc.statusText]

\* a plausible slip: the status classified when the status-like column is
\* met, with the tracking number found up to there
orderOf_StatusAtStatusColumn(it, acc) ==
    LET cols == it.column_values
        statusAt == {i \in DOMAIN cols :
                        cols[i].text # <<>> /\ isStatusColumn(columnTitleOf(cols[i]))}
        upTo == IF statusAt = {} THEN Len(cols)
                ELSE CHOOSE i \in statusAt : \A j \in statusAt : i <= j
        hasTracking == \E i \in 1..upTo :
                          /\ cols[i].text # <<>>
                          /\ isTrackingColumn(columnTitleOf(cols[i]))
                          /\ extractTrackingNumber(cols[i].text) # <<>>
    IN [id |-> it.id, name |-> it.name, values |-> acc.simplifiedValues,
        trackingNumber |-> acc.trackingNumber,
        shippingCarrier |-> acc.shippingCarrier,
        shipmentStatus |-> detectShipmentStatus(acc.statusText, hasTracking)]

\* the statements after the forEach: the record the callback returns
orderOf(it, acc) ==
    LET hasTracking == Len(acc.trackingNumber) > 0 IN
    [id |-> it.id, name |-> it.name, values |-> acc.simplifiedValues,
     trackingNumber |-> acc.trackingNumber,
     shippingCarrier |-> acc.shippingCarrier,
     shipmentStatus |-> detectShipmentStatus(acc.statusText, hasTracking)]

RECURSIVE forEachColumn(_, _)
forEachColumn(acc, cols) ==
    IF cols = <<>> THEN acc
    ELSE forEachColumn(forEachBody(acc, Head(cols)), Tail(cols))

\* the callback of items.map
mapItem(it) == orderOf(it, forEachColumn(initialLocals, it.column_values))

(***************************************************************************)
(* services/geminiService.ts                                               *)
(***************************************************************************)
ErrNotConfigured ==
    <<"E","r","r","o","r",":"," ","L","a"," ","c","o","n","e","x","i","o'","n"," ","c","o","n"," ","e","l"," ","a","s","i","s","t","e","n","t","e"," ","n","o"," ","e","s","t","a'"," ","c","o","n","f","i","g","u","r","a","d","a","."," ","P","o","r"," ","f","a","v","o","r"," ","v","e","r","i","f","i","c","a"," ","l","o","s"," ","d","a","t","o","s"," ","d","e"," ","M","o","n","d","a","y",".">>
ErrEmptyText ==
    <<"L","o"," ","s","i","e","n","t","o",","," ","n","o"," ","p","u","d","e"," ","p","r","o","c","e","s","a","r"," ","e","s","a"," ","r","e","s","p","u","e","s","t","a",".">>
ErrModelCall ==
    <<"H","u","b","o"," ","u","n"," ","e","r","r","o","r"," ","a","l"," ","c","o","n","e","c","t","a","r"," ","c","o","n"," ","l","a"," ","i","n","t","e","l","i","g","e","n","c","i","a"," ","a","r","t","i","f","i","c","i","a","l","."," ","P","o","r"," ","f","a","v","o","r"," ","i","n","t","e","n","t","a"," ","m","a'","s"," ","t","a","r","d","e",".">>

\* initializeChat(orders): the module's chatSession afterwards.  <<>> is null;
\* a session is represented by the orders serialized into its instruction.
initializeChat(key, session, orders) ==
    IF ~key THEN session ELSE <<orders>>

\* sendMessageToGemini: the text the promise resolves with.  outcome is what
\* chatSession.sendMessage does: it throws, or returns a result with a text.
sendMessageToGemini(session, outcome) ==
    IF session = <<>> THEN ErrNotConfigured
    ELSE IF outcome.throws THEN ErrModelCall
    ELSE IF outcome.text = <<>> THEN ErrEmptyText
    ELSE outcome.text

(***************************************************************************)
(* App.tsx: detectTrackingInfo                                             *)
(***************************************************************************)
\* Canonicalize of the i flag, applied to a whole text
canonicalize(s) == toUpperCase(s)

\* the tests below take the canonicalized text c
\* /lit/i.test(s)
testI(c, lit) == includes(c, canonicalize(lit))

\* /a.*b/i.test(s): . matches anything but a line terminator
testDotStarI(c, a, b) ==
    \E i \in 1..Len(c) :
        /\ matchAt(c, canonicalize(a), i)
        /\ \E k \in (i + Len(a))..(Len(c) + 1) :
              /\ matchAt(c, canonicalize(b), k)
              /\ \A j \in (i + Len(a))..(k - 1) : c[j] \notin LineTerminators

\* /a\s*b/i.test(s)
testSpacesI(c, a, b) ==
    \E i \in 1..Len(c) :
        /\ matchAt(c, canonicalize(a), i)
        /\ \E k \in (i + Len(a))..(Len(c) + 1) :
              /\ matchAt(c, canonicalize(b), k)
              /\ \A j \in (i + Len(a))..(k - 1) : c[j] \in WhiteSpace

\* /entregado|delivered|U+2705/i
deliveredPattern(c) ==
    \/ testI(c, <<"e","n","t","r","e","g","a","d","o">>)
    \/ testI(c, <<"d","e","l","i","v","e","r","e","d">>)
    \/ testI(c, <<"U+2705">>)

\* /en camino|en tra'nsito|en transito|shipped|U+1F69A.*estado/i
inTransitPattern(c) ==
    \/ testI(c, <<"e","n"," ","c","a","m","i","n","o">>)
    \/ testI(c, <<"e","n"," ","t","r","a'","n","s","i","t","o">>)
    \/ testI(c, <<"e","n"," ","t","r","a","n","s","i","t","o">>)
    \/ testI(c, <<"s","h","i","p","p","e","d">>)
    \/ testDotStarI(c, <<"U+1F69A">>, <<"e","s","t","a","d","o">>)

\* /sin informacio'n|no tenemos informacio'n|sin datos|U+26A0 U+FE0F/i
noDataPattern(c) ==
    \/ testI(c, <<"s","i","n"," ","i","n","f","o","r","m","a","c","i","o'","n">>)
    \/ testI(c, <<"n","o"," ","t","e","n","e","m","o","s"," ","i","n","f","o","r","m","a","c","i","o'","n">>)
    \/ testI(c, <<"s","i","n"," ","d","a","t","o","s">>)
    \/ testI(c, <<"U+26A0","U+FE0F">>)

\* /preparando|procesando|pendiente|U+23F3/i
pendingPattern(c) ==
    \/ testI(c, <<"p","r","e","p","a","r","a","n","d","o">>)
    \/ testI(c, <<"p","r","o","c","e","s","a","n","d","o">>)
    \/ testI(c, <<"p","e","n","d","i","e","n","t","e">>)
    \/ testI(c, <<"U+23F3">>)

\* a plausible slip: the in-transit pattern tested before the delivered one
provisionalStatus_InTransitFirst(text) ==
    LET c == canonicalize(text) IN
    IF inTransitPattern(c) THEN "IN_TRANSIT"
    ELSE IF deliveredPattern(c) THEN "DELIVERED"
    ELSE IF noDataPattern(c) THEN "NO_DATA"
    ELSE IF pendingPattern(c) THEN "PENDING"
    ELSE "PENDING"

\* the status after the loop over statusPatterns
provisionalStatus(text) ==
    LET c == canonicalize(text) IN
    IF deliveredPattern(c) THEN "DELIVERED"
    ELSE IF inTransitPattern(c) THEN "IN_TRANSIT"
    ELSE IF noDataPattern(c) THEN "NO_DATA"
    ELSE IF pendingPattern(c) THEN "PENDING"
    ELSE "PENDING"

\* the carrier after the loop over carrierPatterns
carrierFromPatterns(text) ==
    LET c == canonicalize(text) IN
    IF testI(c, <<"e","s","t","a","f","e","t","a">>) THEN "ESTAFETA"
    ELSE IF testI(c, <<"f","e","d","e","x">>) \/ testSpacesI(c, <<"f","e","d">>, <<"e","x">>) THEN "FEDEX"
    ELSE IF testI(c, <<"d","h","l">>) THEN "DHL"
    ELSE IF testI(c, <<"u","p","s">>) THEN "UPS"
    ELSE IF testI(c, <<"r","e","d","p","a","c","k">>) THEN "REDPACK"
    ELSE IF testI(c, <<"p","a","q","u","e","t","e","x","p","r","e","s","s">>) \/ testSpacesI(c, <<"p","a","q","u","e","t","e">>, <<"e","x","p","r","e","s","s">>)
         THEN "PAQUETEXPRESS"
    ELSE "UNKNOWN"

\* a plausible slip: an order matches when its trackingNumber contains the
\* number
findOrder_Contains(orders, number) ==
    LET hits == {k \in DOMAIN orders : includes(orders[k].trackingNumber, number)}
    IN IF hits = {} THEN <<>>
       ELSE <<orders[CHOOSE k \in hits : \A h \in hits : k <= h]>>

\* ordersData.find(order => order.trackingNumber === trackingNumber):
\* <<>> for undefined, else <<the first such order>>
findOrder(orders, number) ==
    LET hits == {k \in DOMAIN orders : orders[k].trackingNumber = number}
    IN IF hits = {} THEN <<>>
       ELSE <<orders[CHOOSE k \in hits : \A h \in hits : k <= h]>>

\* a plausible slip: the matching order's status is not taken
detectTrackingInfo_KeepProvisional(text, orders) ==
    LET status == provisionalStatus(text)
        trackingMatch == matchTrackingPattern(text)
    IN IF trackingMatch = <<>>
       THEN IF status = "NO_DATA" \/ status = "PENDING"
            THEN <<[trackingNumber |-> <<>>, carrier |-> "UNKNOWN", status |-> status]>>
            ELSE <<>>
       ELSE LET matchingOrder == findOrder(orders, trackingMatch[1])
            IN IF matchingOrder # <<>>
               THEN <<[trackingNumber |-> trackingMatch[1],
                       carrier |-> matchingOrder[1].shippingCarrier,
                       status |-> status]>>
               ELSE <<[trackingNumber |-> trackingMatch[1],
                       carrier |-> carrierFromPatterns(text),
                       status |-> status]>>

\* a plausible slip: the card is shown for every status when no number is found
detectTrackingInfo_AlwaysCard(text, orders) ==
    LET status == provisionalStatus(text)
        trackingMatch == matchTrackingPattern(text)
    IN IF trackingMatch = <<>>
       THEN <<[trackingNumber |-> <<>>, carrier |-> "UNKNOWN", status |-> status]>>
       ELSE LET matchingOrder == findOrder(orders, trackingMatch[1])
            IN IF matchingOrder # <<>>
               THEN <<[trackingNumber |-> trackingMatch[1],
                       carrier |-> matchingOrder[1].shippingCarrier,
                       status |-> matchingOrder[1].shipmentStatus]>>
               ELSE <<[trackingNumber |-> trackingMatch[1],
                       carrier |-> carrierFromPatterns(text),
                       status |-> status]>>

\* a plausible slip: no card at all when no number is found
detectTrackingInfo_NeverCard(text, orders) ==
    LET status == provisionalStatus(text)
        trackingMatch == matchTrackingPattern(text)
    IN IF trackingMatch = <<>>
       THEN <<>>
       ELSE LET matchingOrder == findOrder(orders, trackingMatch[1])
            IN IF matchingOrder # <<>>
               THEN <<[trackingNumber |-> trackingMatch[1],
                       carrier |-> matchingOrder[1].shippingCarrier,
                       status |-> matchingOrder[1].shipmentStatus]>>
               ELSE <<[trackingNumber |-> trackingMatch[1],
                       carrier |-> carrierFromPatterns(text),
                       status |-> status]>>

\* a plausible slip: the number taken with extractTrackingNumber, which falls
\* back to the trimmed text
trackingInfoFrom_TrimmedFallback(text, orders, status) ==
    LET number == extractTrackingNumber(text)
    IN IF number = <<>>
       THEN IF status = "NO_DATA" \/ status = "PENDING"
            THEN <<[trackingNumber |-> <<>>, carrier |-> "UNKNOWN", status |-> status]>>
            ELSE <<>>
       ELSE LET matchingOrder == findOrder(orders, number)
            IN IF matchingOrder # <<>>
               THEN <<[trackingNumber |-> number,
                       carrier |-> matchingOrder[1].shippingCarrier,
                       status |-> matchingOrder[1].shipmentStatus]>>
               ELSE <<[trackingNumber |-> number,
                       carrier |-> carrierFromPatterns(text),
                       status |-> status]>>

\* the statements of detectTrackingInfo after the loop over statusPatterns,
\* with the status that loop left: <<>> when the function returns without
\* calling setTrackingInfo, else <<the value it sets>>
trackingInfoFrom(text, orders, status) ==
    LET trackingMatch == matchTrackingPattern(text)
    IN IF trackingMatch = <<>>
       THEN IF status = "NO_DATA" \/ status = "PENDING"
            THEN <<[trackingNumber |-> <<>>, carrier |-> "UNKNOWN", status |-> status]>>
            ELSE <<>>
       ELSE LET matchingOrder == findOrder(orders, trackingMatch[1])
            IN IF matchingOrder # <<>>
               THEN <<[trackingNumber |-> trackingMatch[1],
                       carrier |-> matchingOrder[1].shippingCarrier,
                       status |-> matchingOrder[1].shipmentStatus]>>
               ELSE <<[trackingNumber |-> trackingMatch[1],
                       carrier |-> carrierFromPatterns(text),
                       status |-> status]>>

\* detectTrackingInfo(text) with the ordersData of its closure: <<>> when it
\* returns without calling setTrackingInfo, else <<the value it sets>>
detectTrackingInfo(text, orders) ==
    trackingInfoFrom(text, orders, provisionalStatus(text))

(***************************************************************************)
(* Values of the variables a specification does not use.                   *)
(***************************************************************************)
NoItem == [id |-> "", name |-> "", column_values |-> <<>>]

FnIdle ==
    /\ fnText = <<>>
    /\ fnHasTrackingNumber = FALSE
    /\ fnCarrier = "UNKNOWN"
    /\ fnStatus = "PENDING"
    /\ fnResult = ""
    /\ fnPc = "idle"

BuildIdle ==
    /\ item = NoItem
    /\ colIdx = 1
    /\ simplifiedValues = EmptyValues
    /\ trackingNumber = <<>>
    /\ shippingCarrier = "UNKNOWN"
    /\ statusText = <<>>
    /\ record = <<>>
    /\ buildPc = "idle"

AppIdle ==
    /\ apiKey = FALSE
    /\ chatSession = <<>>
    /\ isConfigured = FALSE
    /\ statusMessage = "Iniciando..."
    /\ searchQuery = <<>>
    /\ messages = <<>>
    /\ isLoading = FALSE
    /\ trackingInfo = <<>>
    /\ hasSearched = FALSE
    /\ ordersData = <<>>
    /\ isInitializing = TRUE
    /\ connPc = "idle"
    /\ searchPc = "idle"
    /\ shownBefore = <<>>

(***************************************************************************)
(* SpecCarrier: detectCarrier applied to a text.                           *)
(***************************************************************************)
CarrierWords == {
    <<"E","s","t","a","f","e","t","a">>,
    <<"F","E","D","E","X">>,
    <<"F","e","d"," ","E","x">>,
    <<"d","h","l">>,
    <<"U","P","S">>,
    <<"R","e","d","p","a","c","k">>,
    <<"P","a","q","u","e","t","e"," ","E","x","p","r","e","s","s">>,
    <<"p","a","q","u","e","t","e","x","p","r","e","s","s">>,
    <<"E","s","t","a'","f","e","t","a">>,
    <<"p","o","r">>,
    <<" ">> }

CarrierTexts == TextsOver(CarrierWords, MaxWords)

InitCarrier ==
    /\ fnText \in CarrierTexts
    /\ fnHasTrackingNumber = FALSE
    /\ fnCarrier = "UNKNOWN"
    /\ fnStatus = "PENDING"
    /\ fnResult = ""
    /\ fnPc = "input"
    /\ BuildIdle
    /\ AppIdle

CallDetectCarrier ==
    /\ fnPc = "input"
    /\ fnResult' = detectCarrier(fnText)
    /\ fnPc' = "done"
    /\ UNCHANGED <<fnText, fnHasTrackingNumber, fnCarrier, fnStatus, buildVars, appVars>>

NextCarrier == CallDetectCarrier

SpecCarrier == InitCarrier /\ [][NextCarrier]_vars

(***************************************************************************)
(* SpecStatus: detectShipmentStatus applied to a status text and a flag.   *)
(***************************************************************************)
StatusWords == {
    <<"E","n","t","r","e","g","a","d","o">>,
    <<"R","E","C","I","B","I","D","O">>,
    <<"E","N"," ","C","A","M","I","N","O">>,
    <<"E","n"," ","T","r","a'","n","s","i","t","o">>,
    <<"e","n","v","i","a","d","o">>,
    <<"s","h","i","p","p","e","d">>,
    <<"p","e","n","d","i","e","n","t","e">>,
    <<" ">> }

StatusTexts == TextsOver(StatusWords, MaxWords)

InitStatus ==
    /\ fnText \in StatusTexts
    /\ fnHasTrackingNumber \in BOOLEAN
    /\ fnCarrier = "UNKNOWN"
    /\ fnStatus = "PENDING"
    /\ fnResult = ""
    /\ fnPc = "input"
    /\ BuildIdle
    /\ AppIdle

CallDetectShipmentStatus ==
    /\ fnPc = "input"
    /\ fnResult' = detectShipmentStatus(fnText, fnHasTrackingNumber)
    /\ fnPc' = "done"
    /\ UNCHANGED <<fnText, fnHasTrackingNumber, fnCarrier, fnStatus, buildVars, appVars>>

NextStatus == CallDetectShipmentStatus

SpecStatus == InitStatus /\ [][NextStatus]_vars

(***************************************************************************)
(* SpecUrl: getTrackingUrl applied to a carrier and a tracking number.     *)
(***************************************************************************)
NumberWords == {
    <<"1","2","3","4","5","6","7","8","9","0">>,
    <<"9","9","9","9","9","9","9","9","9","9">>,
    <<"o","t","r","a">>,
    <<" ">> }

NumberTexts == TextsOver(NumberWords, MaxWords)

InitUrl ==
    /\ fnText \in NumberTexts
    /\ fnHasTrackingNumber = FALSE
    /\ fnCarrier \in ShippingCarrier
    /\ fnStatus = "PENDING"
    /\ fnResult = <<"?">>
    /\ fnPc = "input"
    /\ BuildIdle
    /\ AppIdle

CallGetTrackingUrl ==
    /\ fnPc = "input"
    /\ fnResult' = getTrackingUrl(fnCarrier, fnText)
    /\ fnPc' = "done"
    /\ UNCHANGED <<fnText, fnHasTrackingNumber, fnCarrier, fnStatus, buildVars, appVars>>

NextUrl == CallGetTrackingUrl

SpecUrl == InitUrl /\ [][NextUrl]_vars

(***************************************************************************)
(* SpecColumn: the three column classifiers applied to a column title.     *)
(***************************************************************************)
TitleWords == {
    <<"N","u'","m","e","r","o"," ","d","e"," ","G","u","i'","a">>,
    <<"G","U","I","A">>,
    <<"T","r","a","c","k","i","n","g">>,
    <<"R","a","s","t","r","e","o">>,
    <<"n","u","m","e","r","o","_","g","u","i","a">>,
    <<"C","o","m","p","a","n~","i'","a">>,
    <<"C","a","r","r","i","e","r">>,
    <<"P","A","Q","U","E","T","E","R","I'","A">>,
    <<"E","m","p","r","e","s","a"," ","E","n","v","i'","o">>,
    <<"e","m","p","r","e","s","a","_","e","n","v","i","o">>,
    <<"E","s","t","a","d","o">>,
    <<"S","t","a","t","u","s">>,
    <<"E","s","t","a","t","u","s">>,
    <<"S","i","t","u","a","c","i","o'","n">>,
    <<"C","l","i","e","n","t","e">>,
    <<" ">> }

ColumnTitles == TextsOver(TitleWords, MaxWords)

NoVerdict == [fn |-> "", value |-> FALSE]

InitColumn ==
    /\ fnText \in ColumnTitles
    /\ fnHasTrackingNumber = FALSE
    /\ fnCarrier = "UNKNOWN"
    /\ fnStatus = "PENDING"
    /\ fnResult = NoVerdict
    /\ fnPc = "input"
    /\ BuildIdle
    /\ AppIdle

CallIsTrackingColumn ==
    /\ fnPc = "input"
    /\ fnResult' = [fn |-> "isTrackingColumn", value |-> isTrackingColumn(fnText)]
    /\ fnPc' = "done"
    /\ UNCHANGED <<fnText, fnHasTrackingNumber, fnCarrier, fnStatus, buildVars, appVars>>

CallIsCarrierColumn ==
    /\ fnPc = "input"
    /\ fnResult' = [fn |-> "isCarrierColumn", value |-> isCarrierColumn(fnText)]
    /\ fnPc' = "done"
    /\ UNCHANGED <<fnText, fnHasTrackingNumber, fnCarrier, fnStatus, buildVars, appVars>>

CallIsStatusColumn ==
    /\ fnPc = "input"
    /\ fnResult' = [fn |-> "isStatusColumn", value |-> isStatusColumn(fnText)]
    /\ fnPc' = "done"
    /\ UNCHANGED <<fnText, fnHasTrackingNumber, fnCarrier, fnStatus, buildVars, appVars>>

NextColumn ==
    \/ CallIsTrackingColumn
    \/ CallIsCarrierColumn
    \/ CallIsStatusColumn

SpecColumn == InitColumn /\ [][NextColumn]_vars

(***************************************************************************)
(* SpecExtract: extractTrackingNumber applied to the text of a column.     *)
(***************************************************************************)
ExtractWords == {
    <<"1","2","3","4","5","6","7","8","9","0">>,
    <<"1","2","3","4","5","6","7","8","9","0","1">>,
    <<"1","2","3","4","5","6","7","8","9","0","1","2">>,
    <<"r","e","f">>,
    <<" ">>,
    <<"i'">>,
    <<"_">>,
    <<"G","u","i'","a",":"," ">> }

ExtractTexts == TextsOver(ExtractWords, MaxWords)

InitExtract ==
    /\ fnText \in ExtractTexts
    /\ fnHasTrackingNumber = FALSE
    /\ fnCarrier = "UNKNOWN"
    /\ fnStatus = "PENDING"
    /\ fnResult = <<"?">>
    /\ fnPc = "input"
    /\ BuildIdle
    /\ AppIdle

CallExtractTrackingNumber ==
    /\ fnPc = "input"
    /\ fnResult' = extractTrackingNumber(fnText)
    /\ fnPc' = "done"
    /\ UNCHANGED <<fnText, fnHasTrackingNumber, fnCarrier, fnStatus, buildVars, appVars>>

NextExtract == CallExtractTrackingNumber

SpecExtract == InitExtract /\ [][NextExtract]_vars

(***************************************************************************)
(* SpecDetect: one call of detectTrackingInfo on a response text, in two   *)
(* steps: the loop over statusPatterns, then the rest of the function.     *)
(***************************************************************************)
ResponseWords == {
    <<"E","n","t","r","e","g","a","d","o"," ">>,
    <<"d","e","l","i","v","e","r","e","d"," ">>,
    <<"U+2705"," ">>,
    <<"E","n"," ","c","a","m","i","n","o"," ">>,
    <<"E","N"," ","T","R","A'","N","S","I","T","O"," ">>,
    <<"e","n"," ","t","r","a","n","s","i","t","o"," ">>,
    <<"s","h","i","p","p","e","d"," ">>,
    <<"U+1F69A"," ">>,
    <<"E","s","t","a","d","o"," ">>,
    <<"e","n","v","i","a","d","o"," ">>,
    <<"R","e","c","i","b","i","d","o"," ">>,
    <<"S","i","n"," ","i","n","f","o","r","m","a","c","i","o'","n"," ">>,
    <<"s","i","n"," ","d","a","t","o","s"," ">>,
    <<"U+26A0","U+FE0F"," ">>,
    <<"p","e","n","d","i","e","n","t","e"," ">>,
    <<"U+23F3"," ">>,
    <<"1","2","3","4","5","6","7","8","9","0"," ">>,
    <<"h","o","l","a"," ">> }

ResponseTexts == TextsOver(ResponseWords, MaxWords)

InitDetect ==
    /\ fnText \in ResponseTexts
    /\ fnHasTrackingNumber = FALSE
    /\ fnCarrier = "UNKNOWN"
    /\ fnStatus = "PENDING"
    /\ fnResult = <<>>
    /\ fnPc = "input"
    /\ BuildIdle
    /\ AppIdle

\* let status = 'PENDING' and the loop over statusPatterns
DetectStatus ==
    /\ fnPc = "input"
    /\ fnStatus' = provisionalStatus(fnText)
    /\ fnPc' = "matching"
    /\ UNCHANGED <<fnText, fnHasTrackingNumber, fnCarrier, fnResult, buildVars, appVars>>

\* the match of the tracking number, the lookup and setTrackingInfo
DetectNumber ==
    /\ fnPc = "matching"
    /\ fnResult' = trackingInfoFrom(fnText, ordersData, fnStatus)
    /\ fnPc' = "done"
    /\ UNCHANGED <<fnText, fnHasTrackingNumber, fnCarrier, fnStatus, buildVars, appVars>>

NextDetect ==
    \/ DetectStatus
    \/ DetectNumber

SpecDetect == InitDetect /\ [][NextDetect]_vars

(***************************************************************************)
(* SpecNormalize: the normalization the classifiers apply to a text,       *)
(* applied to a text and then to its own result.                           *)
(***************************************************************************)
NormalizeWords == {
    <<"G","u","i'","a">>,
    <<"C","O","M","P","A","N~","I'","A">>,
    <<"E","n"," ","T","r","a'","n","s","i","t","o">>,
    <<"S","i","t","u","a","c","i","o'","n">>,
    <<"n","U+0303">>,
    <<"A","U+0301">>,
    <<"U+0301">>,
    <<"E'">>,
    <<"n~">>,
    <<"x","1","_">>,
    <<" ">> }

NormalizeTexts == TextsOver(NormalizeWords, MaxWords)

InitNormalize ==
    /\ fnText \in NormalizeTexts
    /\ fnHasTrackingNumber = FALSE
    /\ fnCarrier = "UNKNOWN"
    /\ fnStatus = "PENDING"
    /\ fnResult = <<"?">>
    /\ fnPc = "input"
    /\ BuildIdle
    /\ AppIdle

\* the text is normalized
Normalize ==
    /\ fnPc = "input"
    /\ fnResult' = normalized(fnText)
    /\ fnPc' = "once"
    /\ UNCHANGED <<fnText, fnHasTrackingNumber, fnCarrier, fnStatus, buildVars, appVars>>

\* the result is given back as the text and normalized again
NormalizeAgain ==
    /\ fnPc = "once"
    /\ fnText' = fnResult
    /\ fnResult' = normalized(fnResult)
    /\ fnPc' = "twice"
    /\ UNCHANGED <<fnHasTrackingNumber, fnCarrier, fnStatus, buildVars, appVars>>

NextNormalize ==
    \/ Normalize
    \/ NormalizeAgain

SpecNormalize == InitNormalize /\ [][NextNormalize]_vars

(***************************************************************************)
(* SpecBuild: the map callback of fetchMondayOrders on one board item,     *)
(* one forEach iteration per step.                                         *)
(***************************************************************************)
\* the columns of the board: id and title
BoardColumns == {
    [id |-> <<"t","e","x","t","1">>, title |-> <<"G","u","i'","a">>],
    [id |-> <<"t","e","x","t","2">>, title |-> <<"P","a","q","u","e","t","e","r","i'","a">>],
    [id |-> <<"s","t","a","t","u","s">>, title |-> <<"E","s","t","a","d","o">>],
    [id |-> <<"t","e","x","t","4">>, title |-> <<"E","s","t","a","d","o"," ","d","e"," ","g","u","i'","a">>],
    [id |-> <<"t","e","x","t","5">>, title |-> <<>>] }

\* the texts a column may hold
ColumnTexts == {
    <<>>,
    <<" ">>,
    <<"D","H","L"," ","1","2","3","4","5","6","7","8","9","0">>,
    <<"o","t","r","a">>,
    <<"U","P","S"," ","e","n","t","r","e","g","a","d","o">> }

ColumnValues ==
    {[id |-> c.id, title |-> c.title, text |-> t] : c \in BoardColumns, t \in ColumnTexts}

Items ==
    {[id |-> "1", name |-> "Juan", column_values |-> cs] :
        cs \in UNION {[1..k -> ColumnValues] : k \in 0..MaxCols}}

InitBuild ==
    /\ item \in Items
    /\ colIdx = 1
    /\ simplifiedValues = initialLocals.simplifiedValues
    /\ trackingNumber = initialLocals.trackingNumber
    /\ shippingCarrier = initialLocals.shippingCarrier
    /\ statusText = initialLocals.statusText
    /\ record = <<>>
    /\ buildPc = "forEach"
    /\ FnIdle
    /\ AppIdle

\* one iteration of the forEach
ScanColumn ==
    /\ buildPc = "forEach"
    /\ colIdx <= Len(item.column_values)
    /\ \E acc \in {forEachBody(
                    [simplifiedValues |-> simplifiedValues,
                     trackingNumber |-> trackingNumber,
                     shippingCarrier |-> shippingCarrier,
                     statusText |-> statusText],
                    item.column_values[colIdx])} :
          /\ simplifiedValues' = acc.simplifiedValues
          /\ trackingNumber' = acc.trackingNumber
          /\ shippingCarrier' = acc.shippingCarrier
          /\ statusText' = acc.statusText
    /\ colIdx' = colIdx + 1
    /\ UNCHANGED <<item, record, buildPc, fnVars, appVars>>

\* after the forEach: the status is classified and the record returned
ReturnOrder ==
    /\ buildPc = "forEach"
    /\ colIdx > Len(item.column_values)
    /\ record' = <<orderOf(item,
                     [simplifiedValues |-> simplifiedValues,
                      trackingNumber |-> trackingNumber,
                      shippingCarrier |-> shippingCarrier,
                      statusText |-> statusText])>>
    /\ buildPc' = "returned"
    /\ UNCHANGED <<item, colIdx, simplifiedValues, trackingNumber, shippingCarrier,
                   statusText, fnVars, appVars>>

NextBuild == ScanColumn \/ ReturnOrder

SpecBuild == InitBuild /\ [][NextBuild]_vars

(***************************************************************************)
(* Spec: the App component.  handleConnection runs once after mount;        *)
(* searches follow one another (the inputs are disabled while one loads).   *)
(***************************************************************************)
\* board items the fetch may return
ItemJuan ==
    [id |-> "1", name |-> "Juan", column_values |-> <<
        [id |-> <<"t","e","x","t","1">>, title |-> <<"G","u","i'","a">>, text |-> <<"1","2","3","4","5","6","7","8","9","0">>],
        [id |-> <<"t","e","x","t","2">>, title |-> <<"P","a","q","u","e","t","e","r","i'","a">>, text |-> <<"D","H","L">>],
        [id |-> <<"s","t","a","t","u","s">>, title |-> <<"E","s","t","a","d","o">>, text |-> <<"E","n","t","r","e","g","a","d","o">>] >>]
ItemAna ==
    [id |-> "2", name |-> "Ana", column_values |-> <<
        [id |-> <<"t","e","x","t","1">>, title |-> <<"G","u","i'","a">>, text |-> <<"1","2","3","4","5","6","7","8","9","0">>],
        [id |-> <<"t","e","x","t","2">>, title |-> <<"P","a","q","u","e","t","e","r","i'","a">>, text |-> <<"E","s","t","a","f","e","t","a">>] >>]

\* an item whose tracking text is a reference, not a number
ItemLuz ==
    [id |-> "3", name |-> "Luz", column_values |-> <<
        [id |-> <<"t","e","x","t","1">>, title |-> <<"G","u","i'","a">>, text |-> <<"r","e","f","1","2","3","4","5","6","7","8","9","0">>],
        [id |-> <<"t","e","x","t","2">>, title |-> <<"P","a","q","u","e","t","e","r","i'","a">>, text |-> <<"U","P","S">>],
        [id |-> <<"s","t","a","t","u","s">>, title |-> <<"E","s","t","a","d","o">>, text |-> <<"E","n","t","r","e","g","a","d","o">>] >>]

BoardItems == {ItemJuan, ItemAna, ItemLuz}
\* the boards: up to MaxOrders items, each item (its id is unique) at most once
Boards ==
    {board \in UNION {[1..k -> BoardItems] : k \in 0..MaxOrders} :
        \A i, j \in DOMAIN board : i # j => board[i] # board[j]}

\* what fetchMondayOrders may throw: the message of the Error
FetchErrors == {
    "Missing Monday.com credentials. Set MONDAY_API_TOKEN and MONDAY_BOARD_ID in .env.local",
    "Error fetching data from Monday" }

\* the texts the assistant may answer with (<<>>: a result without text)
ModelTexts == {
    <<>>,
    <<"s","i","n"," ","d","a","t","o","s"," ","U","P","S"," ","1","2","3","4","5","6","7","8","9","0">>,
    <<"9","9","9","9","9","9","9","9","9","9"," ","y"," ","1","2","3","4","5","6","7","8","9","0">>,
    <<"E","n","t","r","e","g","a","d","o">>,
    <<"U+1F69A"," ","E","s","t","a","d","o",":"," ","E","N"," ","C","A","M","I","N","O">>,
    <<"S","i","n"," ","d","a","t","o","s">>,
    <<"F","e","d"," "," ","E","x"," ","5","5","5","5","5","5","5","5","5","5"," ","e","n"," ","c","a","m","i","n","o">>,
    <<"r","e","f","1","2","3","4","5","6","7","8","9","0">> }

ModelOutcomes ==
    {[throws |-> FALSE, text |-> t] : t \in ModelTexts}
        \cup {[throws |-> TRUE, text |-> <<>>]}

\* the example buttons (one of the three stands for all) and typed input
ExampleQueries == { <<"5","5"," ","1","2","3","4"," ","5","6","7","8">> }
TypedQueries == { <<" ">> }

Init ==
    /\ apiKey \in BOOLEAN
    /\ chatSession = <<>>
    /\ isConfigured = FALSE
    /\ statusMessage = "Iniciando..."
    /\ searchQuery = <<>>
    /\ messages = <<>>
    /\ isLoading = FALSE
    /\ trackingInfo = <<>>
    /\ hasSearched = FALSE
    /\ ordersData = <<>>
    /\ isInitializing = TRUE
    /\ connPc = "timer"
    /\ searchPc = "idle"
    /\ shownBefore = <<>>
    /\ FnIdle
    /\ BuildIdle

\* the timer of the mount effect fires: handleConnection up to its await
HandleConnection ==
    /\ connPc = "timer"
    /\ statusMessage' = "Conectando a Monday..."
    /\ connPc' = "fetching"
    /\ UNCHANGED <<apiKey, chatSession, isConfigured, searchQuery, messages, isLoading,
                   trackingInfo, hasSearched, ordersData, isInitializing, searchPc,
                   shownBefore, fnVars, buildVars>>

\* a plausible slip: the state receives only the first order of the fetch
FetchResolves_PartialOrders ==
    /\ connPc = "fetching"
    /\ \E board \in Boards :
          LET orders == [k \in DOMAIN board |-> mapItem(board[k])] IN
          /\ ordersData' = IF orders = <<>> THEN orders ELSE <<orders[1]>>
          /\ chatSession' = initializeChat(apiKey, chatSession, orders)
    /\ isConfigured' = TRUE
    /\ statusMessage' = "Sistema en li'nea"
    /\ isInitializing' = FALSE
    /\ connPc' = "done"
    /\ UNCHANGED <<apiKey, searchQuery, messages, isLoading, trackingInfo, hasSearched,
                   searchPc, shownBefore, fnVars, buildVars>>

\* fetchMondayOrders resolves: the try block after the await, and finally
FetchResolves ==
    /\ connPc = "fetching"
    /\ \E board \in Boards :
          LET orders == [k \in DOMAIN board |-> mapItem(board[k])] IN
          /\ ordersData' = orders
          /\ chatSession' = initializeChat(apiKey, chatSession, orders)
    /\ isConfigured' = TRUE
    /\ statusMessage' = "Sistema en li'nea"
    /\ isInitializing' = FALSE
    /\ connPc' = "done"
    /\ UNCHANGED <<apiKey, searchQuery, messages, isLoading, trackingInfo, hasSearched,
                   searchPc, shownBefore, fnVars, buildVars>>

\* fetchMondayOrders rejects: the catch block, and finally
FetchRejects ==
    /\ connPc = "fetching"
    /\ \E error \in FetchErrors : statusMessage' = error
    /\ isConfigured' = FALSE
    /\ isInitializing' = FALSE
    /\ connPc' = "done"
    /\ UNCHANGED <<apiKey, chatSession, searchQuery, messages, isLoading, trackingInfo,
                   hasSearched, ordersData, searchPc, shownBefore, fnVars, buildVars>>

\* setSearchQuery: an example button (always enabled), or typing in an input
\* (disabled unless configured and not loading)
SetSearchQuery ==
    /\ \E q \in ExampleQueries \cup TypedQueries :
          /\ q \in TypedQueries => (isConfigured /\ ~isLoading)
          /\ searchQuery' = q
    /\ UNCHANGED <<apiKey, chatSession, isConfigured, statusMessage, messages, isLoading,
                   trackingInfo, hasSearched, ordersData, isInitializing, connPc,
                   searchPc, shownBefore, fnVars, buildVars>>

\* a plausible slip: the card of the previous search is not reset
HandleSearch_NoReset ==
    /\ isConfigured /\ ~isLoading
    /\ trim(searchQuery) # <<>>
    /\ Len(messages) < 2 * MaxSearches
    /\ messages' = Append(messages, [role |-> "user", text |-> searchQuery, isError |-> FALSE])
    /\ searchQuery' = <<>>
    /\ isLoading' = TRUE
    /\ hasSearched' = TRUE
    /\ shownBefore' = trackingInfo
    /\ searchPc' = "awaiting"
    /\ UNCHANGED <<apiKey, chatSession, isConfigured, statusMessage, ordersData,
                   trackingInfo, isInitializing, connPc, fnVars, buildVars>>

\* handleSearch up to its await (the button and the inputs are enabled only
\* when configured and not loading).  shownBefore records the TrackingInfo
\* that was shown when the search started.
\* a plausible slip: detectTrackingInfo run on the query when it is submitted
HandleSearch_DetectOnQuery ==
    /\ isConfigured /\ ~isLoading
    /\ trim(searchQuery) # <<>>
    /\ Len(messages) < 2 * MaxSearches
    /\ messages' = Append(messages, [role |-> "user", text |-> searchQuery, isError |-> FALSE])
    /\ searchQuery' = <<>>
    /\ isLoading' = TRUE
    /\ hasSearched' = TRUE
    /\ shownBefore' = trackingInfo
    /\ trackingInfo' = detectTrackingInfo(searchQuery, ordersData)
    /\ searchPc' = "awaiting"
    /\ UNCHANGED <<apiKey, chatSession, isConfigured, statusMessage, ordersData,
                   isInitializing, connPc, fnVars, buildVars>>

HandleSearch ==
    /\ isConfigured /\ ~isLoading
    /\ trim(searchQuery) # <<>>
    /\ Len(messages) < 2 * MaxSearches
    /\ messages' = Append(messages, [role |-> "user", text |-> searchQuery, isError |-> FALSE])
    /\ searchQuery' = <<>>
    /\ isLoading' = TRUE
    /\ hasSearched' = TRUE
    /\ shownBefore' = trackingInfo
    /\ trackingInfo' = <<>>
    /\ searchPc' = "awaiting"
    /\ UNCHANGED <<apiKey, chatSession, isConfigured, statusMessage, ordersData,
                   isInitializing, connPc, fnVars, buildVars>>

\* handleSearch returns at its first line: the query is blank (Enter pressed
\* in an empty input) or the connection is not configured
HandleSearchReturns ==
    /\ ~(trim(searchQuery) # <<>>) \/ ~isConfigured
    /\ UNCHANGED vars

\* a plausible slip: isLoading is not cleared when the call settles
SendMessageResolves_NoFinally ==
    /\ searchPc = "awaiting"
    /\ \E outcome \in ModelOutcomes :
       \E responseText \in {sendMessageToGemini(chatSession, outcome)} :
       \E update \in {detectTrackingInfo(responseText, ordersData)} :
          /\ messages' = Append(messages,
                 [role |-> "model", text |-> responseText, isError |-> FALSE])
          /\ trackingInfo' = IF update # <<>> THEN update ELSE trackingInfo
    /\ searchPc' = "idle"
    /\ UNCHANGED <<apiKey, chatSession, isConfigured, statusMessage, searchQuery,
                   isLoading, hasSearched, ordersData, isInitializing, connPc,
                   shownBefore, fnVars, buildVars>>

\* sendMessageToGemini resolves: the rest of the try block, and finally
SendMessageResolves ==
    /\ searchPc = "awaiting"
    /\ \E outcome \in ModelOutcomes :
       \E responseText \in {sendMessageToGemini(chatSession, outcome)} :
       \E update \in {detectTrackingInfo(responseText, ordersData)} :
          /\ messages' = Append(messages,
                 [role |-> "model", text |-> responseText, isError |-> FALSE])
          /\ trackingInfo' = IF update # <<>> THEN update ELSE trackingInfo
    /\ isLoading' = FALSE
    /\ searchPc' = "idle"
    /\ UNCHANGED <<apiKey, chatSession, isConfigured, statusMessage, searchQuery,
                   hasSearched, ordersData, isInitializing, connPc, shownBefore,
                   fnVars, buildVars>>

Next ==
    \/ HandleConnection
    \/ FetchResolves
    \/ FetchRejects
    \/ SetSearchQuery
    \/ HandleSearch
    \/ HandleSearchReturns
    \/ SendMessageResolves

Spec == Init /\ [][Next]_vars

\* the awaited promise of sendMessageToGemini settles and handleSearch goes
\* on after its await; under Next this step is SendMessageResolves, which is
\* enabled exactly while the search awaits
CallSettles == searchPc = "awaiting" /\ searchPc' = "idle"

\* the assistant call settles: sendMessageToGemini catches every error of the
\* model call, so its promise resolves once the call ends
SpecLive == Spec /\ WF_searchPc(CallSettles)

(***************************************************************************)
(* Claims about the mapping of one item (SpecBuild).                       *)
(***************************************************************************)
Returned == buildPc = "returned"
Columns == item.column_values
Min(S) == CHOOSE x \in S : \A y \in S : x <= y
Max(S) == CHOOSE x \in S : \A y \in S : y <= x

\* the columns with non-empty text whose title is tracking-like, carrier-like
TrackingLike ==
    {i \in DOMAIN Columns :
        Columns[i].text # <<>> /\ isTrackingColumn(columnTitleOf(Columns[i]))}
CarrierLike ==
    {i \in DOMAIN Columns :
        Columns[i].text # <<>> /\ isCarrierColumn(columnTitleOf(Columns[i]))}

\* C1: every record the item mapping returns with a non-empty trackingNumber
\* has a shipmentStatus other than NO_DATA.
C1_TrackingNumberNeverNoData ==
    Returned => (record[1].trackingNumber # <<>> => record[1].shipmentStatus # "NO_DATA")

\* C1 witness: a record with a tracking number and no status text at all,
\* classified IN_TRANSIT.
C1_Witness ==
    /\ Returned
    /\ record[1].trackingNumber # <<>>
    /\ statusText = <<>>
    /\ record[1].shipmentStatus = "IN_TRANSIT"

\* C7 as claimed: with two tracking-like columns that both have text, the
\* record's trackingNumber is what extractTrackingNumber gives for the first,
\* for every pair of texts.
C7_FirstTrackingColumnAlways ==
    (Returned /\ Cardinality(TrackingLike) = 2) =>
        record[1].trackingNumber = extractTrackingNumber(Columns[Min(TrackingLike)].text)

\* C7 amended: the first tracking-like column supplies the trackingNumber and
\* the second is ignored when the value extracted from the first is non-empty;
\* when it is empty (a text of white space only) the second column supplies it.
C7_FirstNonEmptyTrackingKept ==
    (Returned /\ Cardinality(TrackingLike) = 2) =>
        LET first == extractTrackingNumber(Columns[Min(TrackingLike)].text)
            second == extractTrackingNumber(Columns[Max(TrackingLike)].text)
        IN record[1].trackingNumber = IF first # <<>> THEN first ELSE second

\* C7 witness: two tracking-like columns whose extracted values are non-empty
\* and differ; the record holds the first.
C7_Witness ==
    /\ Returned
    /\ Cardinality(TrackingLike) = 2
    /\ LET first == extractTrackingNumber(Columns[Min(TrackingLike)].text)
           second == extractTrackingNumber(Columns[Max(TrackingLike)].text)
       IN first # <<>> /\ second # <<>> /\ first # second
          /\ record[1].trackingNumber = first

\* C8 as claimed: with two carrier-like columns that both have text, the
\* record's carrier is detectCarrier of the first, whatever the first's text.
C8_FirstCarrierColumnAlways ==
    (Returned /\ Cardinality(CarrierLike) = 2) =>
        record[1].shippingCarrier = detectCarrier(Columns[Min(CarrierLike)].text)

\* C8 amended: the first carrier-like column supplies the carrier and the
\* second is ignored when detectCarrier of the first is not UNKNOWN; when it is
\* UNKNOWN the carrier is detectCarrier of the second.
C8_FirstKnownCarrierKept ==
    (Returned /\ Cardinality(CarrierLike) = 2) =>
        LET first == detectCarrier(Columns[Min(CarrierLike)].text)
            second == detectCarrier(Columns[Max(CarrierLike)].text)
        IN record[1].shippingCarrier = IF first # "UNKNOWN" THEN first ELSE second

\* C8 witness: two carrier-like columns naming different carriers; the record
\* holds the first.
C8_Witness ==
    /\ Returned
    /\ Cardinality(CarrierLike) = 2
    /\ LET first == detectCarrier(Columns[Min(CarrierLike)].text)
           second == detectCarrier(Columns[Max(CarrierLike)].text)
       IN first # "UNKNOWN" /\ second # "UNKNOWN" /\ first # second
          /\ record[1].shippingCarrier = first

(***************************************************************************)
(* Claims about detectShipmentStatus (SpecStatus).                         *)
(***************************************************************************)
\* a keyword of the list occurs in the normalized text
HasKeyword(text, list) ==
    LET t == normalized(text) IN
    \E k \in DOMAIN list : \E i \in 1..Len(t) :
        /\ i + Len(list[k]) - 1 <= Len(t)
        /\ SubSeq(t, i, i + Len(list[k]) - 1) = list[k]

\* C2: the ordered rule.  NO_DATA exactly when the text is empty and there is
\* no tracking number; otherwise DELIVERED when a delivered keyword occurs;
\* otherwise IN_TRANSIT when an in-transit keyword occurs or there is a
\* tracking number; otherwise PENDING.
C2_OrderedStatusRule ==
    fnPc = "done" =>
        LET noData == fnText = <<>> /\ ~fnHasTrackingNumber
            delivered == HasKeyword(fnText, DELIVERED_KEYWORDS)
            inTransit == HasKeyword(fnText, IN_TRANSIT_KEYWORDS)
        IN /\ (fnResult = "NO_DATA") <=> noData
           /\ (fnResult = "DELIVERED") <=> (~noData /\ delivered)
           /\ (fnResult = "IN_TRANSIT") <=>
                 (~noData /\ ~delivered /\ (inTransit \/ fnHasTrackingNumber))
           /\ (fnResult = "PENDING") <=>
                 (~noData /\ ~delivered /\ ~inTransit /\ ~fnHasTrackingNumber)

\* C2 witness: a text with a delivered and an in-transit keyword and a
\* tracking number, classified DELIVERED.
C2_Witness ==
    /\ fnPc = "done"
    /\ fnHasTrackingNumber
    /\ HasKeyword(fnText, DELIVERED_KEYWORDS)
    /\ HasKeyword(fnText, IN_TRANSIT_KEYWORDS)
    /\ fnResult = "DELIVERED"

(***************************************************************************)
(* Claims about detectCarrier (SpecCarrier).                               *)
(***************************************************************************)
\* the carriers in the order of the claim, and the names that stand for each
CarrierOrder == <<"ESTAFETA", "FEDEX", "DHL", "UPS", "REDPACK", "PAQUETEXPRESS">>
CarrierNames == <<
    {<<"E","S","T","A","F","E","T","A">>},
    {<<"F","E","D","E","X">>, <<"F","E","D"," ","E","X">>},
    {<<"D","H","L">>},
    {<<"U","P","S">>},
    {<<"R","E","D","P","A","C","K">>},
    {<<"P","A","Q","U","E","T","E","X","P","R","E","S","S">>, <<"P","A","Q","U","E","T","E"," ","E","X","P","R","E","S","S">>} >>

\* name occurs in text, letters compared without regard to case
OccursIgnoringCase(text, name) ==
    \E i \in 1..Len(text) :
        /\ i + Len(name) - 1 <= Len(text)
        /\ \A j \in 1..Len(name) : lowerChar(text[i + j - 1]) = lowerChar(name[j])

\* the carriers of which a name occurs in the text, by position in CarrierOrder
CarriersNamed(text) ==
    {k \in DOMAIN CarrierOrder :
        \E name \in CarrierNames[k] : OccursIgnoringCase(text, name)}

\* C9: detectCarrier returns the earliest-listed carrier of which a name
\* occurs in the text, case-insensitively, and UNKNOWN when none occurs.
C9_EarliestListedCarrier ==
    fnPc = "done" =>
        fnResult = IF CarriersNamed(fnText) = {} THEN "UNKNOWN"
                   ELSE CarrierOrder[Min(CarriersNamed(fnText))]

\* C9 witness: a text naming two carriers, classified as the earlier listed.
C9_Witness ==
    /\ fnPc = "done"
    /\ Cardinality(CarriersNamed(fnText)) = 2
    /\ fnResult = CarrierOrder[Min(CarriersNamed(fnText))]

\* the text with its diacritics stripped: decomposed, combining marks removed
stripDiacritics(text) == replaceMarks(normalizeNFD(text))

\* C10 as claimed: detectCarrier gives the same carrier for a text and for
\* the text with its diacritics stripped.
C10_AccentInsensitive ==
    fnPc = "done" => fnResult = detectCarrier(stripDiacritics(fnText))

(***************************************************************************)
(* Claims about detectTrackingInfo and handleSearch (Spec).                *)
(***************************************************************************)
\* a search turn has ended: the last message is the assistant's response
AfterTurn == searchPc = "idle" /\ messages # <<>>
LastResponse == messages[Len(messages)].text
\* the step in which a search turn ends
TurnEnds == searchPc = "awaiting" /\ searchPc' = "idle"

\* the maximal runs of decimal digits of a text, as <<first, last>>
DigitRuns(text) ==
    {r \in (1..Len(text)) \X (1..Len(text)) :
        /\ r[1] <= r[2]
        /\ \A j \in r[1]..r[2] : text[j] \in Digits
        /\ r[1] = 1 \/ text[r[1] - 1] \notin Digits
        /\ r[2] = Len(text) \/ text[r[2] + 1] \notin Digits}

\* the runs of 10 to 22 digits
TrackingRuns(text) ==
    {r \in DigitRuns(text) :
        r[2] - r[1] + 1 >= MinTrackingDigits /\ r[2] - r[1] + 1 <= MaxTrackingDigits}

\* those of them that stand between word boundaries
BoundedRuns(text) ==
    {r \in TrackingRuns(text) :
        /\ r[1] = 1 \/ text[r[1] - 1] \notin WordChars
        /\ r[2] = Len(text) \/ text[r[2] + 1] \notin WordChars}

RunText(text, r) == SubSeq(text, r[1], r[2])
FirstRun(runs) == CHOOSE r \in runs : \A q \in runs : r[1] <= q[1]

\* the orders whose trackingNumber is the number, by position in ordersData
OrdersWith(number) == {k \in DOMAIN ordersData : ordersData[k].trackingNumber = number}

\* C3 as claimed: whenever the response contains a 10-22 digit run equal to
\* the trackingNumber of a record, the TrackingInfo set has that record's
\* shippingCarrier and shipmentStatus.
C3_AnyRunAnyRecord ==
    AfterTurn =>
        \A r \in TrackingRuns(LastResponse) :
            \A k \in OrdersWith(RunText(LastResponse, r)) :
                /\ trackingInfo # <<>>
                /\ trackingInfo[1].carrier = ordersData[k].shippingCarrier
                /\ trackingInfo[1].status = ordersData[k].shipmentStatus

\* C3 amended: when the first 10-22 digit run between word boundaries equals
\* the trackingNumber of records, the TrackingInfo set is that number with the
\* shippingCarrier and shipmentStatus of the first such record of ordersData.
C3_FirstRunFirstRecord ==
    (AfterTurn /\ BoundedRuns(LastResponse) # {}) =>
        LET number == RunText(LastResponse, FirstRun(BoundedRuns(LastResponse)))
            hits == OrdersWith(number)
        IN hits # {} =>
              trackingInfo = <<[trackingNumber |-> number,
                                carrier |-> ordersData[Min(hits)].shippingCarrier,
                                status |-> ordersData[Min(hits)].shipmentStatus]>>

\* C3 witness: the response names a known number, its phrases give another
\* status and it names another carrier than the record; the record's are set.
C3_Witness ==
    /\ AfterTurn
    /\ BoundedRuns(LastResponse) # {}
    /\ LET number == RunText(LastResponse, FirstRun(BoundedRuns(LastResponse)))
           hits == OrdersWith(number)
       IN /\ hits # {}
          /\ provisionalStatus(LastResponse) # ordersData[Min(hits)].shipmentStatus
          /\ carrierFromPatterns(LastResponse) # ordersData[Min(hits)].shippingCarrier
          /\ trackingInfo[1].carrier = ordersData[Min(hits)].shippingCarrier
          /\ trackingInfo[1].status = ordersData[Min(hits)].shipmentStatus

\* the card without a tracking number
EmptyCard(status) == [trackingNumber |-> <<>>, carrier |-> "UNKNOWN", status |-> status]

\* C4: in a turn whose response has no 10-22 digit run, TrackingInfo is set
\* to the empty card with the provisional status when that status is NO_DATA
\* or PENDING, and is not updated when it is DELIVERED or IN_TRANSIT.
C4_NoNumberCardOrNothing ==
    [][(TurnEnds /\ TrackingRuns(LastResponse') = {}) =>
          IF provisionalStatus(LastResponse') \in {"NO_DATA", "PENDING"}
          THEN trackingInfo' = <<EmptyCard(provisionalStatus(LastResponse'))>>
          ELSE trackingInfo' = trackingInfo]_vars

\* C4 witness: both cases have happened in one session: a response without
\* a number and provisionally IN_TRANSIT earlier (no card), and now a response
\* without a number and provisionally NO_DATA, with the NO_DATA card shown.
C4_Witness ==
    /\ AfterTurn
    /\ TrackingRuns(LastResponse) = {}
    /\ provisionalStatus(LastResponse) = "NO_DATA"
    /\ trackingInfo = <<EmptyCard("NO_DATA")>>
    /\ \E i \in 1..(Len(messages) - 1) :
          /\ messages[i].role = "model"
          /\ TrackingRuns(messages[i].text) = {}
          /\ provisionalStatus(messages[i].text) = "IN_TRANSIT"

\* C5 as claimed: after a turn whose response has no number and whose
\* provisional status is DELIVERED or IN_TRANSIT, the TrackingInfo shown is
\* the one that was shown before the search started.
C5_PriorDisplayKept ==
    (/\ AfterTurn
     /\ TrackingRuns(LastResponse) = {}
     /\ provisionalStatus(LastResponse) \in {"DELIVERED", "IN_TRANSIT"})
        => trackingInfo = shownBefore

\* C5 amended: after such a turn no TrackingInfo is shown: handleSearch resets
\* it to null when the search starts and the extractor leaves it so, whatever
\* was shown before.
C5_DisplayCleared ==
    (/\ AfterTurn
     /\ TrackingRuns(LastResponse) = {}
     /\ provisionalStatus(LastResponse) \in {"DELIVERED", "IN_TRANSIT"})
        => trackingInfo = <<>>

\* C5 witness: such a turn after a search that had shown a card.
C5_Witness ==
    /\ AfterTurn
    /\ TrackingRuns(LastResponse) = {}
    /\ provisionalStatus(LastResponse) \in {"DELIVERED", "IN_TRANSIT"}
    /\ shownBefore # <<>>
    /\ trackingInfo = <<>>

\* the fixed texts sendMessageToGemini resolves with on failure
FixedErrorTexts == {ErrNotConfigured, ErrEmptyText, ErrModelCall}

\* C6 as claimed: a response without a 10-22 digit run yields no TrackingInfo
\* update.
C6_NoNumberNoUpdate ==
    [][(TurnEnds /\ TrackingRuns(LastResponse') = {}) =>
          trackingInfo' = trackingInfo]_vars

\* C6 amended: a response without a 10-22 digit run yields no update exactly
\* when its provisional status is DELIVERED or IN_TRANSIT; the three fixed
\* error texts match no status pattern, and yield the empty PENDING card.
C6_NoUpdateOnlyWhenDeliveredOrInTransit ==
    [][(TurnEnds /\ TrackingRuns(LastResponse') = {}) =>
          /\ (trackingInfo' = trackingInfo) <=>
                provisionalStatus(LastResponse') \in {"DELIVERED", "IN_TRANSIT"}
          /\ LastResponse' \in FixedErrorTexts =>
                trackingInfo' = <<EmptyCard("PENDING")>>]_vars

\* C6 witness: a turn whose response is the fixed text for a failed model
\* call, after which the PENDING card is shown.
C6_Witness ==
    /\ AfterTurn
    /\ LastResponse = ErrModelCall
    /\ trackingInfo = <<EmptyCard("PENDING")>>


(***************************************************************************)
(* carrierService.ts: getTrackingUrl (SpecUrl)                             *)
(***************************************************************************)
\* The URL templates, as the configuration table lists them.
UrlTemplates == <<
    <<"ESTAFETA", 
        <<"h","t","t","p","s",":","/","/","w","w","w",".","e","s","t","a","f","e","t","a",".","c","o","m","/","H","e","r","r","a","m","i","e","n","t","a","s","/","R","a","s","t","r","e","o","?","g","u","i","a","=">>>>,
    <<"FEDEX", 
        <<"h","t","t","p","s",":","/","/","w","w","w",".","f","e","d","e","x",".","c","o","m","/","f","e","d","e","x","t","r","a","c","k","/","?","t","r","k","n","b","r","=">>>>,
    <<"DHL", 
        <<"h","t","t","p","s",":","/","/","w","w","w",".","d","h","l",".","c","o","m","/","m","x","-","e","s","/","h","o","m","e","/","r","a","s","t","r","e","o",".","h","t","m","l","?","t","r","a","c","k","i","n","g","-","i","d","=">>>>,
    <<"UPS", 
        <<"h","t","t","p","s",":","/","/","w","w","w",".","u","p","s",".","c","o","m","/","t","r","a","c","k","?","t","r","a","c","k","n","u","m","=">>>>,
    <<"REDPACK", 
        <<"h","t","t","p","s",":","/","/","w","w","w",".","r","e","d","p","a","c","k",".","c","o","m",".","m","x","/","e","s","/","r","a","s","t","r","e","o","/","?","g","u","i","a","s","=">>>>,
    <<"PAQUETEXPRESS", 
        <<"h","t","t","p","s",":","/","/","w","w","w",".","p","a","q","u","e","t","e","x","p","r","e","s","s",".","c","o","m",".","m","x","/","r","a","s","t","r","e","o","/">>>> >>

\* C11: getTrackingUrl returns the carrier's URL template followed by the
\* tracking number for every carrier other than UNKNOWN, and the empty string
\* for UNKNOWN, whatever the tracking number.
C11_UrlIsTemplatePlusNumber ==
    fnPc = "done" =>
        /\ fnCarrier = "UNKNOWN" => fnResult = <<>>
        /\ \A k \in 1..Len(UrlTemplates) :
              fnCarrier = UrlTemplates[k][1] =>
                  /\ Len(fnResult) = Len(UrlTemplates[k][2]) + Len(fnText)
                  /\ SubSeq(fnResult, 1, Len(UrlTemplates[k][2])) = UrlTemplates[k][2]
                  /\ SubSeq(fnResult, Len(UrlTemplates[k][2]) + 1, Len(fnResult)) = fnText
        /\ fnCarrier \in {UrlTemplates[k][1] : k \in 1..Len(UrlTemplates)} \cup {"UNKNOWN"}

\* C11 witness: the URL of a known carrier for a non-empty number has been
\* returned.
C11_Witness ==
    /\ fnPc = "done"
    /\ fnCarrier = "DHL"
    /\ fnText = <<"1","2","3","4","5","6","7","8","9","0">>
    /\ Len(fnResult) > Len(fnText)

(***************************************************************************)
(* mondayService.ts: the column classifiers (SpecColumn)                   *)
(***************************************************************************)
\* The keyword lists of the three categories, as the design document gives
\* them.
ListedTrackingKeywords == <<
    <<"g","u","i","a">>,
    <<"t","r","a","c","k","i","n","g">>,
    <<"r","a","s","t","r","e","o">>,
    <<"n","u","m","e","r","o"," ","g","u","i","a">> >>
ListedCarrierKeywords == <<
    <<"c","o","m","p","a","n","i","a">>,
    <<"c","a","r","r","i","e","r">>,
    <<"p","a","q","u","e","t","e","r","i","a">>,
    <<"e","m","p","r","e","s","a"," ","e","n","v","i","o">> >>
ListedStatusKeywords == <<
    <<"e","s","t","a","d","o">>,
    <<"s","t","a","t","u","s">>,
    <<"e","s","t","a","t","u","s">>,
    <<"s","i","t","u","a","c","i","o","n">> >>

ListedKeywords(fn) ==
    CASE fn = "isTrackingColumn" -> ListedTrackingKeywords
      [] fn = "isCarrierColumn" -> ListedCarrierKeywords
      [] fn = "isStatusColumn" -> ListedStatusKeywords

\* C12: a title is classified tracking-like, carrier-like or status-like
\* exactly when its lower-cased, diacritic-stripped form contains one of the
\* listed keywords of that category, whatever the case and accents of the
\* title; so a title containing "Empresa Envio" (accented or not) is
\* carrier-like.
C12_ClassifiedIffListedKeyword ==
    fnPc = "done" =>
        (fnResult.value <=> HasKeyword(fnText, ListedKeywords(fnResult.fn)))

(***************************************************************************)
(* mondayService.ts: extractTrackingNumber (SpecExtract)                   *)
(***************************************************************************)
\* C13 as claimed: the result is the first run of 10 to 22 consecutive digits
\* whose neighbouring characters, if any, are non-digits; without such a run
\* it is the trimmed input, and the empty input gives the empty result.
C13_FirstDigitBoundedRun ==
    fnPc = "done" =>
        IF TrackingRuns(fnText) # {}
        THEN fnResult = RunText(fnText, FirstRun(TrackingRuns(fnText)))
        ELSE fnResult = trim(fnText)

\* C13 amended: the result is the first run of 10 to 22 consecutive digits
\* whose neighbouring characters, if any, are neither digits, ASCII letters
\* nor underscores; without such a run it is the trimmed input, the empty input
\* gives the empty result, and a run of 23 or more digits is never cut into a
\* result.
C13_FirstWordBoundedRun ==
    fnPc = "done" =>
        /\ IF BoundedRuns(fnText) # {}
           THEN fnResult = RunText(fnText, FirstRun(BoundedRuns(fnText)))
           ELSE fnResult = trim(fnText)
        /\ fnText = <<>> => fnResult = <<>>
        /\ \A r \in DigitRuns(fnText) :
              r[2] - r[1] + 1 > MaxTrackingDigits =>
                 \/ fnResult = trim(fnText)
                 \/ \E q \in BoundedRuns(fnText) :
                       q # r /\ fnResult = RunText(fnText, q)

\* C13 witness: a run of 10 digits glued to letters was not extracted; the
\* result is the whole text.
C13_Witness ==
    /\ fnPc = "done"
    /\ fnText = <<"r","e","f","1","2","3","4","5","6","7","8","9","0">>
    /\ fnResult = fnText

(***************************************************************************)
(* fetchMondayOrders: where the carrier of a record comes from (SpecBuild) *)
(***************************************************************************)
\* the columns with text in which a name of carrier number k occurs
ColumnsNaming(k) ==
    {i \in DOMAIN Columns :
        /\ Columns[i].text # <<>>
        /\ \E name \in CarrierNames[k] : OccursIgnoringCase(Columns[i].text, name)}

\* C14: the record's shippingCarrier differs from UNKNOWN only if some
\* carrier-like column of the item has non-empty text containing that
\* carrier's name; a carrier named only in columns that are not carrier-like
\* leaves the carrier UNKNOWN.
C14_CarrierOnlyFromCarrierColumn ==
    Returned =>
        /\ \A k \in DOMAIN CarrierOrder :
              record[1].shippingCarrier = CarrierOrder[k] =>
                  ColumnsNaming(k) \cap CarrierLike # {}
        /\ record[1].shippingCarrier \in {CarrierOrder[k] : k \in DOMAIN CarrierOrder} \cup {"UNKNOWN"}
        /\ (\A k \in DOMAIN CarrierOrder : ColumnsNaming(k) \cap CarrierLike = {}) =>
              record[1].shippingCarrier = "UNKNOWN"

\* C14 witness: a tracking-like column that is not carrier-like holds
\* "DHL 1234567890", no carrier-like column names a carrier, and the record
\* returned has carrier UNKNOWN and that tracking number.
C14_Witness ==
    /\ Returned
    /\ \E i \in TrackingLike \ CarrierLike :
          Columns[i].text = <<"D","H","L"," ","1","2","3","4","5","6","7","8","9","0">>
    /\ \A k \in DOMAIN CarrierOrder : ColumnsNaming(k) \cap CarrierLike = {}
    /\ record[1].trackingNumber = <<"1","2","3","4","5","6","7","8","9","0">>
    /\ record[1].shippingCarrier = "UNKNOWN"

(***************************************************************************)
(* detectTrackingInfo: the fallback for a number no record has (Spec)      *)
(***************************************************************************)
\* C15: when the response contains a tracking number that matches no record,
\* the TrackingInfo set is that number, detectCarrier of the response text and
\* the provisional status: the carrier of the fallback equals
\* detectCarrier(responseText).
C15_FallbackCarrierIsDetectCarrier ==
    (AfterTurn /\ BoundedRuns(LastResponse) # {}) =>
        LET number == RunText(LastResponse, FirstRun(BoundedRuns(LastResponse)))
        IN OrdersWith(number) = {} =>
              trackingInfo = <<[trackingNumber |-> number,
                                carrier |-> detectCarrier(LastResponse),
                                status |-> provisionalStatus(LastResponse)]>>

(***************************************************************************)
(* detectTrackingInfo: the provisional status (SpecDetect)                 *)
(***************************************************************************)
\* the loop over statusPatterns has run
StatusDetected == fnPc \in {"matching", "done"}

\* the phrases of each status pattern, in the order of statusPatterns
DeliveredPhrases == {
    <<"e","n","t","r","e","g","a","d","o">>,
    <<"d","e","l","i","v","e","r","e","d">>,
    <<"U+2705">> }
InTransitPhrases == {
    <<"e","n"," ","c","a","m","i","n","o">>,
    <<"e","n"," ","t","r","a'","n","s","i","t","o">>,
    <<"e","n"," ","t","r","a","n","s","i","t","o">>,
    <<"s","h","i","p","p","e","d">> }
NoDataPhrases == {
    <<"s","i","n"," ","i","n","f","o","r","m","a","c","i","o'","n">>,
    <<"n","o"," ","t","e","n","e","m","o","s"," ","i","n","f","o","r","m","a","c","i","o'","n">>,
    <<"s","i","n"," ","d","a","t","o","s">>,
    <<"U+26A0","U+FE0F">> }
PendingPhrases == {
    <<"p","r","e","p","a","r","a","n","d","o">>,
    <<"p","r","o","c","e","s","a","n","d","o">>,
    <<"p","e","n","d","i","e","n","t","e">>,
    <<"U+23F3">> }

SaysOneOf(text, phrases) == \E ph \in phrases : OccursIgnoringCase(text, ph)

\* the truck sign followed, at any distance on the same line, by "estado"
TruckThenEstado(text) ==
    \E i \in 1..Len(text) : \E j \in (i + 1)..Len(text) :
        /\ text[i] = "U+1F69A"
        /\ j + 5 <= Len(text)
        /\ \A m \in 1..6 : lowerChar(text[j + m - 1]) = lowerChar(<<"e","s","t","a","d","o">>[m])
        /\ \A m \in (i + 1)..(j - 1) : text[m] \notin LineTerminators

\* C16: the provisional status is that of the first pattern, in the order
\* delivered, in-transit, no-data, pending, that matches the response text,
\* and PENDING when none matches; a text matching a delivered pattern and any
\* later pattern is provisionally DELIVERED.
C16_FirstMatchingPattern ==
    StatusDetected =>
        fnStatus =
            IF SaysOneOf(fnText, DeliveredPhrases) THEN "DELIVERED"
            ELSE IF SaysOneOf(fnText, InTransitPhrases) \/ TruckThenEstado(fnText)
                 THEN "IN_TRANSIT"
            ELSE IF SaysOneOf(fnText, NoDataPhrases) THEN "NO_DATA"
            ELSE "PENDING"

\* C16 witness: a text with a pending phrase followed by a delivered phrase;
\* its provisional status is DELIVERED.
C16_Witness ==
    /\ StatusDetected
    /\ fnText = <<"p","e","n","d","i","e","n","t","e"," ","E","n","t","r","e","g","a","d","o"," ">>
    /\ SaysOneOf(fnText, PendingPhrases)
    /\ fnStatus = "DELIVERED"

\* C17: the structured-column path and the free-text path share keyword lists
\* and normalization: a text that detectShipmentStatus, without a tracking
\* number, classifies DELIVERED is provisionally DELIVERED, and one it
\* classifies IN_TRANSIT is provisionally IN_TRANSIT.
C17_FreeTextAgreesWithColumns ==
    StatusDetected =>
        /\ detectShipmentStatus(fnText, FALSE) = "DELIVERED" => fnStatus = "DELIVERED"
        /\ detectShipmentStatus(fnText, FALSE) = "IN_TRANSIT" => fnStatus = "IN_TRANSIT"

(***************************************************************************)
(* fetchMondayOrders: when the status is classified (SpecBuild)            *)
(***************************************************************************)
StatusLike ==
    {i \in DOMAIN Columns :
        Columns[i].text # <<>> /\ isStatusColumn(columnTitleOf(Columns[i]))}

\* the text of the first status-like column with text, if any
FirstStatusText == IF StatusLike = {} THEN <<>> ELSE Columns[Min(StatusLike)].text

\* some tracking-like column of the item, wherever it stands, gives a number
SomeTrackingNumber ==
    \E i \in TrackingLike : extractTrackingNumber(Columns[i].text) # <<>>

\* the step that classifies the status and returns the record
Classifies == buildPc = "forEach" /\ buildPc' = "returned"

\* C18: the status is classified only after every column of the item has been
\* scanned, so the tracking flag it is given counts every tracking-like
\* column, also one that stands after the status-like column.
C18_StatusAfterAllColumns ==
    [][Classifies =>
          /\ colIdx = Len(Columns) + 1
          /\ record'[1].shipmentStatus =
                detectShipmentStatus(FirstStatusText, SomeTrackingNumber)]_vars

\* C18 witness: the status-like column, without a status keyword, stands
\* before the only tracking-like column; the record is IN_TRANSIT on account
\* of the tracking number.
C18_Witness ==
    /\ Returned
    /\ StatusLike # {} /\ TrackingLike # {}
    /\ Min(StatusLike) < Min(TrackingLike)
    /\ detectShipmentStatus(FirstStatusText, FALSE) = "PENDING"
    /\ record[1].trackingNumber # <<>>
    /\ record[1].shipmentStatus = "IN_TRANSIT"

(***************************************************************************)
(* mondayService.ts: the normalization of a text (SpecNormalize)           *)
(***************************************************************************)
\* C19: normalization (lower case, canonical decomposition, removal of the
\* combining marks) is idempotent: normalizing a normalized text gives the
\* same text.
C19_NormalizeIdempotent ==
    fnPc = "twice" => fnResult = fnText

\* C19 witness: a text with capitals, accented letters and a combining mark
\* was normalized to a different text, and normalizing that changed nothing.
C19_Witness ==
    /\ fnPc = "twice"
    /\ fnText = <<"c","o","m","p","a","n","i","a","x","1","_">>
    /\ fnResult = fnText

(***************************************************************************)
(* handleSearch: when detectTrackingInfo runs (Spec)                       *)
(***************************************************************************)
\* C20: in every search turn detectTrackingInfo runs once, after the
\* assistant call of the turn has resolved with its complete text and that
\* text has been appended to messages: a TrackingInfo is set only in the step
\* that ends a turn, that step appends the resolved text as the assistant's
\* message after the turn's query, and the TrackingInfo it leaves is what one
\* run of detectTrackingInfo on that whole text gives.
C20_DetectOnceOnCompleteResponse ==
    [][/\ (trackingInfo' # trackingInfo /\ trackingInfo' # <<>>) => TurnEnds
       /\ TurnEnds =>
             LET last == messages'[Len(messages')]
                 update == detectTrackingInfo(last.text, ordersData)
             IN /\ messages' = Append(messages, last)
                /\ messages[Len(messages)].role = "user"
                /\ last.role = "model" /\ ~last.isError
                /\ \E outcome \in ModelOutcomes :
                      last.text = sendMessageToGemini(chatSession, outcome)
                /\ trackingInfo = <<>>
                /\ trackingInfo' = update]_vars

\* C20 witness: a second turn has ended; its response names a number and a
\* carrier, and the TrackingInfo shown is the one detected in that response,
\* not the one of the first turn.
C20_Witness ==
    /\ AfterTurn
    /\ Len(messages) = 4
    /\ shownBefore # <<>>
    /\ trackingInfo # <<>>
    /\ trackingInfo # shownBefore
    /\ trackingInfo = detectTrackingInfo(LastResponse, ordersData)
    /\ trackingInfo[1].trackingNumber # <<>>

(***************************************************************************)
(* handleConnection: the collection of orders (Spec)                       *)
(***************************************************************************)
\* the complete collections a successful fetch may return
FetchedCollections == {[k \in DOMAIN board |-> mapItem(board[k])] : board \in Boards}

\* C21: ordersData is the initial empty collection or the complete collection
\* of one successful fetch, and whenever a search can run the collection that
\* detectTrackingInfo reads is the whole collection given to initializeChat.
C21_OrdersWholeAndShared ==
    /\ ~isConfigured => ordersData = <<>>
    /\ isConfigured =>
          /\ ordersData \in FetchedCollections
          /\ chatSession # <<>> => chatSession = <<ordersData>>

\* C21 witness: configured with two records, the session holds the same two,
\* and a search has matched a response against them.
C21_Witness ==
    /\ isConfigured
    /\ Len(ordersData) = 2
    /\ chatSession = <<ordersData>>
    /\ AfterTurn
    /\ trackingInfo # <<>>
    /\ OrdersWith(trackingInfo[1].trackingNumber) # {}

(***************************************************************************)
(* fetchMondayOrders: columns that share a title (SpecBuild)               *)
(***************************************************************************)
\* the columns with text whose title is t
SameTitle(t) ==
    {i \in DOMAIN Columns : Columns[i].text # <<>> /\ columnTitleOf(Columns[i]) = t}

\* the titles that two or more columns with text share
DuplicateTitles ==
    {t \in {columnTitleOf(Columns[i]) : i \in DOMAIN Columns} :
        Cardinality(SameTitle(t)) >= 2}

\* C22 as claimed: of the columns with text that share a title the first
\* wins: its text is the value of the title in the record's fields, and the
\* tracking number, carrier and status text of the category the title belongs
\* to are taken from it.
C22_FirstDuplicateWins ==
    Returned =>
        \A t \in DuplicateTitles :
            LET first == Columns[Min(SameTitle(t))].text
            IN /\ record[1].values[t] = first
               /\ TrackingLike = SameTitle(t) =>
                     record[1].trackingNumber = extractTrackingNumber(first)
               /\ CarrierLike = SameTitle(t) =>
                     record[1].shippingCarrier = detectCarrier(first)
               /\ StatusLike = SameTitle(t) =>
                     record[1].shipmentStatus =
                         detectShipmentStatus(first, record[1].trackingNumber # <<>>)

\* C22 amended: of the columns with text that share a title, the LAST one's
\* text is the value of the title in the record's fields; the tracking number
\* is extracted from the first of them that gives a non-empty number, the
\* carrier is detected from the first of them that names a known carrier, and
\* the status text is the first one's.
C22_LastFieldFirstExtraction ==
    Returned =>
        \A t \in DuplicateTitles :
            LET same == SameTitle(t)
                numbered == {i \in same : extractTrackingNumber(Columns[i].text) # <<>>}
                known == {i \in same : detectCarrier(Columns[i].text) # "UNKNOWN"}
            IN /\ record[1].values[t] = Columns[Max(same)].text
               /\ TrackingLike = same =>
                     record[1].trackingNumber =
                         IF numbered = {} THEN <<>>
                         ELSE extractTrackingNumber(Columns[Min(numbered)].text)
               /\ CarrierLike = same =>
                     record[1].shippingCarrier =
                         IF known = {} THEN "UNKNOWN"
                         ELSE detectCarrier(Columns[Min(known)].text)
               /\ StatusLike = same =>
                     record[1].shipmentStatus =
                         detectShipmentStatus(Columns[Min(same)].text,
                                              record[1].trackingNumber # <<>>)

\* C22 witness: two tracking-like columns with one title and different texts,
\* each giving a number; the fields hold the second text, the tracking number
\* comes from the first.
C22_Witness ==
    /\ Returned
    /\ \E t \in DuplicateTitles :
          LET same == SameTitle(t)
              first == Columns[Min(same)].text
              last == Columns[Max(same)].text
          IN /\ TrackingLike = same
             /\ first # last
             /\ extractTrackingNumber(first) # extractTrackingNumber(last)
             /\ extractTrackingNumber(first) # <<>>
             /\ record[1].values[t] = last
             /\ record[1].trackingNumber = extractTrackingNumber(first)

(***************************************************************************)
(* fetchMondayOrders: a column of two categories (SpecBuild)               *)
(***************************************************************************)
\* the column the forEach is at
Scanned == Columns[colIdx]

\* the step that scans a column with text whose title is both tracking-like
\* and status-like, while neither the tracking number nor the status text is
\* set
ScansTrackingAndStatusColumn ==
    /\ buildPc = "forEach"
    /\ colIdx <= Len(Columns)
    /\ colIdx' = colIdx + 1
    /\ Scanned.text # <<>>
    /\ isTrackingColumn(columnTitleOf(Scanned))
    /\ isStatusColumn(columnTitleOf(Scanned))
    /\ trackingNumber = <<>>
    /\ statusText = <<>>

\* C23: the categories are not exclusive: one column with text whose title is
\* tracking-like and status-like supplies the tracking number, through
\* extractTrackingNumber, and the status text, when neither was set by an
\* earlier column, and its text is recorded in the fields.
C23_OneColumnTwoCategories ==
    [][ScansTrackingAndStatusColumn =>
          /\ trackingNumber' = extractTrackingNumber(Scanned.text)
          /\ statusText' = Scanned.text
          /\ columnTitleOf(Scanned) \in DOMAIN simplifiedValues'
          /\ simplifiedValues'[columnTitleOf(Scanned)] = Scanned.text]_vars

\* C23 witness: the record of an item whose only tracking-like and only
\* status-like column is one column holding "DHL 1234567890": the number and
\* the status both come from it.
C23_Witness ==
    /\ Returned
    /\ \E i \in TrackingLike \cap StatusLike :
          /\ TrackingLike = {i} /\ StatusLike = {i}
          /\ Columns[i].text = <<"D","H","L"," ","1","2","3","4","5","6","7","8","9","0">>
          /\ record[1].trackingNumber = <<"1","2","3","4","5","6","7","8","9","0">>
          /\ record[1].shipmentStatus = "IN_TRANSIT"
          /\ record[1].values[columnTitleOf(Columns[i])] = Columns[i].text

(***************************************************************************)
(* The TrackingInfo shown by the App (Spec)                                *)
(***************************************************************************)
AllDigits(number) == \A i \in 1..Len(number) : number[i] \in Digits

\* C24: in every state of the App trackingInfo is null, or a card without a
\* number whose carrier is UNKNOWN and whose status is NO_DATA or PENDING, or
\* it has a number of 10 to 22 decimal digits.
C24_TrackingInfoWellFormed ==
    trackingInfo # <<>> =>
        LET info == trackingInfo[1] IN
        /\ info.carrier \in ShippingCarrier
        /\ info.status \in ShipmentStatus
        /\ info.trackingNumber = <<>> =>
              info.carrier = "UNKNOWN" /\ info.status \in {"NO_DATA", "PENDING"}
        /\ info.trackingNumber # <<>> =>
              /\ AllDigits(info.trackingNumber)
              /\ Len(info.trackingNumber) >= 10
              /\ Len(info.trackingNumber) <= 22

\* C24 witness: after two searches, the first left the card without a number
\* and the second shows a number with a known carrier.
C24_Witness ==
    /\ AfterTurn
    /\ shownBefore # <<>> /\ shownBefore[1].trackingNumber = <<>>
    /\ trackingInfo # <<>> /\ trackingInfo[1].trackingNumber # <<>>
    /\ trackingInfo[1].carrier # "UNKNOWN"

(***************************************************************************)
(* detectTrackingInfo: records whose number is not a digit run (Spec)      *)
(***************************************************************************)
\* a string of 10 to 22 decimal digits
IsDigitRun(number) ==
    /\ Len(number) >= MinTrackingDigits
    /\ Len(number) <= MaxTrackingDigits
    /\ AllDigits(number)

\* the records whose trackingNumber is the trimmed text of the column
FallbackOrders ==
    {k \in DOMAIN ordersData :
        /\ ordersData[k].trackingNumber # <<>>
        /\ ~IsDigitRun(ordersData[k].trackingNumber)}

\* ordersData without those records
DigitRunOrders == SelectSeq(ordersData, LAMBDA o : IsDigitRun(o.trackingNumber))

\* C25: a known record's carrier and status are used only when its
\* trackingNumber is a string of 10 to 22 digits: a record whose number is the
\* trimmed-text fallback is matched by no response, so the TrackingInfo of a
\* turn never has its number and is what it would be without those records.
C25_FallbackRecordsNeverMatched ==
    AfterTurn =>
        /\ \A k \in FallbackOrders :
              trackingInfo = <<>>
                 \/ trackingInfo[1].trackingNumber # ordersData[k].trackingNumber
        /\ trackingInfo = detectTrackingInfo(LastResponse, DigitRunOrders)

\* C25 witness: a record has the number "ref1234567890", carrier UPS and
\* status DELIVERED; the response is that very text, and the card shown has no
\* number, carrier UNKNOWN and the provisional status.
C25_Witness ==
    /\ AfterTurn
    /\ \E k \in FallbackOrders :
          /\ ordersData[k].trackingNumber = LastResponse
          /\ ordersData[k].shippingCarrier = "UPS"
          /\ ordersData[k].shipmentStatus = "DELIVERED"
    /\ trackingInfo = <<EmptyCard("PENDING")>>

TurnStarts == searchPc = "idle" /\ searchPc' = "awaiting"
SearchState == <<messages, isLoading, trackingInfo, hasSearched, searchPc>>
ResponseOf(outcome) == sendMessageToGemini(chatSession, outcome)

C27_SearchEndsWithOneExchange ==
    /\ isLoading ~> ~isLoading
    /\ [][TurnStarts =>
            /\ trim(searchQuery) # <<>> /\ isConfigured
            /\ messages' = Append(messages,
                   [role |-> "user", text |-> searchQuery, isError |-> FALSE])
            /\ isLoading']_vars
    /\ [][TurnEnds =>
            /\ \E outcome \in ModelOutcomes :
                  messages' = Append(messages,
                      [role |-> "model", text |-> ResponseOf(outcome),
                       isError |-> FALSE])
            /\ messages[Len(messages)].role = "user"
            /\ ~isLoading']_vars
    /\ [][messages' # messages => TurnStarts \/ TurnEnds]_vars
    /\ [][(searchPc = "idle" /\ (trim(searchQuery) = <<>> \/ ~isConfigured))
            => UNCHANGED SearchState]_vars

C27_Witness ==
    /\ searchPc = "idle" /\ ~isLoading
    /\ Len(messages) = 2
    /\ messages[1].role = "user" /\ messages[2].role = "model"
    /\ messages[2].text \notin FixedErrorTexts
    /\ trim(searchQuery) = <<>>
    /\ searchQuery # <<>>

(***************************************************************************)
(* C28 (Spec): whenever isConfigured is true a chat session has been       *)
(* created, so no search receives the "not configured" text of             *)
(* sendMessageToGemini; when the fetch fails isConfigured is false and     *)
(* statusMessage carries the error; isInitializing ends false either way.  *)
(***************************************************************************)
ConnectionDone == connPc = "done"
NotConfiguredAnswers ==
    {k \in DOMAIN messages :
        messages[k].role = "model" /\ messages[k].text = ErrNotConfigured}

C28_ConfiguredImpliesChatSession ==
    /\ isConfigured => chatSession # <<>>
    /\ NotConfiguredAnswers = {}
    /\ (ConnectionDone /\ ~isConfigured) => statusMessage \in FetchErrors
    /\ ConnectionDone => ~isInitializing
====
